---- MODULE Spec2Model ----
(***************************************************************************)
(* A model of the MusicXML importer of src/src/iomusxml.cpp                *)
(* (vrv::MusicXmlInput).  The document is read in document order; the      *)
(* model draws each element when the importer reaches it, together with    *)
(* the one piece of the document the handlers look ahead at: the next      *)
(* note sibling of the current measure.                                    *)
(***************************************************************************)
EXTENDS Integers, Sequences, FiniteSets, TLC

\* ------------------------------------------------------------------ bounds
\* children of the part-list read at most
MaxListLen == 3
\* score-part elements of a part-list at most
MaxParts == 2
\* measures of a part at most
MaxMeasures == 2
\* children of a measure read at most
MaxElems == 3
\* staves a part declares at most
MaxStaves == 2
\* elements of the leading attributes run of a part's first measure at most
MaxLead == 2
\* calls of the lookup tables at most
MaxCalls == 2

\* ------------------------------------------------------------ object heap
\* Every object the importer creates (new Measure(), new Note(), ...) is a
\* record of the heap; its identity (and uuid) is its index.
NoRef == <<>>
NoOct == <<>>

\* The reference string "#" + uuid of an object.
Ref(id) == <<"#", id>>

Obj(cls) ==
    [cls |-> cls, n |-> -1, kids |-> <<>>, dur |-> "", dots |-> 0,
     pname |-> "", oct |-> NoOct, octGes |-> NoOct, visible |-> TRUE,
     startid |-> NoRef, endid |-> NoRef, staff |-> <<>>, symbol |-> ""]

\* new T(): the heap with one more object; its id is Len(h) + 1.
New(h, o) == Append(h, o)
NewId(h) == Len(h) + 1

\* Object::AddChild
AddChild(h, parent, child) ==
    [h EXCEPT ![parent].kids = Append(@, child)]

\* Object::MoveChildrenFrom
MoveChildrenFrom(h, to, from) ==
    [h EXCEPT ![to].kids = @ \o h[from].kids, ![from].kids = <<>>]

\* delete obj
Delete(h, id) == [h EXCEPT ![id].cls = "deleted"]

\* Object::FindChildByAttComparison(AttCommonNComparison(cls, n), 1): the first
\* direct child of that class and @n, 0 when there is none.
RECURSIVE FirstKid(_, _, _, _)
FirstKid(h, kids, cls, n) ==
    IF kids = <<>> THEN 0
    ELSE IF h[Head(kids)].cls = cls /\ h[Head(kids)].n = n THEN Head(kids)
    ELSE FirstKid(h, Tail(kids), cls, n)

\* Object::GetChildCount(cls)
RECURSIVE CountKids(_, _, _)
CountKids(h, kids, cls) ==
    IF kids = <<>> THEN 0
    ELSE (IF h[Head(kids)].cls = cls THEN 1 ELSE 0) + CountKids(h, Tail(kids), cls)

\* The objects below the given ones, in document order.
RECURSIVE Flatten(_, _)
Flatten(h, ids) ==
    IF ids = <<>> THEN <<>>
    ELSE <<Head(ids)>> \o Flatten(h, h[Head(ids)].kids) \o Flatten(h, Tail(ids))

\* The position of x in a sequence, 0 when it is not in it.
Position(seq, x) ==
    IF \E k \in 1..Len(seq) : seq[k] = x
    THEN CHOOSE k \in 1..Len(seq) : seq[k] = x ELSE 0

Last(s) == s[Len(s)]
Front(s) == SubSeq(s, 1, Len(s) - 1)

\* --------------------------------------------------------------- state
VARIABLES
    pc,               \* where the conversion stands
    loaded,           \* the result of load_file: <<>> before the call
    ret,              \* the value ImportFile returned: <<>> before it returns
    ub,               \* undefined behaviour was executed
    nWarn,            \* LogWarning calls so far
    m_doc,            \* the destination Doc: type, m_scoreDef children, score, pages
    heap,             \* the objects created
    section,          \* the Section (0 before it is created)
    m_staffGrpStack,  \* ReadMusicXml's stack of open StaffGrp
    staffOffset,      \* ReadMusicXml's staffOffset
    plist,            \* the part-list children read so far (document history); nb
                      \* is the staff count of a score-part that was read
    part,             \* the part being read: nbStaves, measures, index i
    measure,          \* the Measure being read (0 outside a measure)
    measureNum,
    m_octDis, m_ppq, m_meterCount, m_durTotal, m_mRpt,
    m_elementStack,
    m_tieStack, m_slurStack, m_hairpinStack,
    m_dirStack, m_dynamStack, m_harmStack, m_octaveStack, m_pedalStack,
    m_tempoStack,
    m_controlElements, m_ID,
    read,             \* the measures and their children read so far (document
                      \* history), each child with what its handler resolved
    nextNote,         \* the next note sibling in the current measure, if any
    ci,               \* index of the final loop over m_controlElements
    curMeasure        \* that loop's cached Measure (0 is NULL)

docVars == <<m_doc, heap, section>>
grpVars == <<m_staffGrpStack, staffOffset, plist>>
posVars == <<part, measure, measureNum, read, nextNote>>
cursorVars == <<m_octDis, m_ppq, m_meterCount, m_durTotal, m_mRpt, m_elementStack>>
spanVars == <<m_tieStack, m_slurStack, m_hairpinStack>>
pendVars == <<m_dirStack, m_dynamStack, m_harmStack, m_octaveStack, m_pedalStack,
              m_tempoStack>>
ctlVars == <<m_controlElements, m_ID>>
finVars == <<ci, curMeasure>>
vars == <<pc, loaded, ret, ub, nWarn, docVars, grpVars, posVars, cursorVars, spanVars,
          pendVars, ctlVars, finVars>>

NoNote == [kind |-> "none"]
NoPart == [nbStaves |-> 0, nMeasures |-> 0, i |-> 0]

Init ==
    /\ pc = "start"
    /\ loaded = <<>>
    /\ ret = <<>>
    /\ ub = FALSE
    /\ nWarn = 0
    /\ m_doc = [type |-> "unset", scoreDef |-> <<>>, score |-> 0, paged |-> 0]
    /\ heap = <<>>
    /\ section = 0
    /\ m_staffGrpStack = <<>>
    /\ staffOffset = 0
    /\ plist = <<>>
    /\ part = NoPart
    /\ measure = 0
    /\ measureNum = 0
    /\ m_octDis = <<>>
    /\ m_ppq = 0
    /\ m_meterCount = 4
    /\ m_durTotal = 0
    /\ m_mRpt = FALSE
    /\ m_elementStack = <<>>
    /\ m_tieStack = <<>>
    /\ m_slurStack = <<>>
    /\ m_hairpinStack = <<>>
    /\ m_dirStack = <<>>
    /\ m_dynamStack = <<>>
    /\ m_harmStack = <<>>
    /\ m_octaveStack = <<>>
    /\ m_pedalStack = <<>>
    /\ m_tempoStack = <<>>
    /\ m_controlElements = <<>>
    /\ m_ID = NoRef
    /\ read = <<>>
    /\ nextNote = NoNote
    /\ ci = 0
    /\ curMeasure = 0

\* ------------------------------------------------------------ entry point
\* ReadMusicXml up to its loop over the part-list: score buffer, section, root
\* StaffGrp on the stack, staffOffset 0, m_octDis[0].
ReadMusicXmlBegin ==
    LET score == NewId(heap)
        sect == score + 1
        grp == score + 2
        h1 == New(New(New(heap, Obj("SCORE")), Obj("SECTION")), Obj("STAFFGRP"))
    IN /\ heap' = AddChild(h1, score, sect)
       /\ section' = sect
       /\ m_doc' = [m_doc EXCEPT !.type = "Raw", !.score = score,
                                 !.scoreDef = Append(@, grp)]
       /\ m_staffGrpStack' = <<grp>>
       /\ staffOffset' = 0
       /\ m_octDis' = Append(m_octDis, 0)
       /\ ret' = ret
       /\ pc' = "partlist"

\* ImportFile as it would be without the test of load_file's result.
ImportFileUnchecked(parsed) ==
    /\ pc = "start"
    /\ loaded' = <<parsed>>
    /\ ReadMusicXmlBegin
    /\ UNCHANGED <<ub, nWarn, plist, posVars, m_ppq, m_meterCount, m_durTotal, m_mRpt,
                   m_elementStack, spanVars, pendVars, ctlVars, finVars>>

\* ImportFile: SetType(Raw), load_file, return false when it failed, else
\* ReadMusicXml(root).
ImportFile(parsed) ==
    /\ pc = "start"
    /\ loaded' = <<parsed>>
    /\ IF ~parsed
       THEN /\ m_doc' = [m_doc EXCEPT !.type = "Raw"]
            /\ ret' = <<FALSE>>
            /\ pc' = "done"
            /\ UNCHANGED <<heap, section, m_staffGrpStack, staffOffset, m_octDis>>
       ELSE ReadMusicXmlBegin
    /\ UNCHANGED <<ub, nWarn, plist, posVars, m_ppq, m_meterCount, m_durTotal, m_mRpt,
                   m_elementStack, spanVars, pendVars, ctlVars, finVars>>

\* ImportString: SetType(Raw), load, whose result is not looked at, and
\* ReadMusicXml(first_child()).  `parsed` is what load would have reported,
\* `root` whether the document (the part of it parsed before an error, when
\* parsing failed) has a first child, `asserts` whether the build keeps
\* assert().  Without a root assert(root) stops the program, or, in a build
\* without assert, ReadMusicXml runs over the empty node: no part-list child is
\* found and the conversion goes on to its final pass.
ImportString(parsed, root, asserts) ==
    /\ pc = "start"
    /\ parsed => root
    /\ loaded' = <<parsed>>
    /\ IF root
       THEN /\ ReadMusicXmlBegin
            /\ UNCHANGED finVars
       ELSE IF asserts
       THEN /\ m_doc' = [m_doc EXCEPT !.type = "Raw"]
            /\ pc' = "crashed"
            /\ UNCHANGED <<ret, heap, section, m_staffGrpStack, staffOffset, m_octDis,
                           finVars>>
       ELSE LET score == NewId(heap)
                h1 == New(New(New(heap, Obj("SCORE")), Obj("SECTION")), Obj("STAFFGRP"))
            IN /\ heap' = AddChild(h1, score, score + 1)
               /\ section' = score + 1
               /\ m_doc' = [m_doc EXCEPT !.type = "Raw", !.score = score,
                                         !.scoreDef = Append(@, score + 2)]
               /\ m_staffGrpStack' = <<score + 2>>
               /\ staffOffset' = 0
               /\ m_octDis' = Append(m_octDis, 0)
               /\ ret' = ret
               /\ pc' = "ctrl"
               /\ ci' = 1
               /\ curMeasure' = 0
    /\ UNCHANGED <<ub, nWarn, plist, posVars, m_ppq, m_meterCount, m_durTotal, m_mRpt,
                   m_elementStack, spanVars, pendVars, ctlVars>>

\* ------------------------------------------------------------ part-list
\* What happens when the code calls back() or pop_back() on the empty
\* m_staffGrpStack: the behaviour is undefined; the build either stops there
\* or goes on with the stack as it is.
Undefined(crash) ==
    /\ ub' = TRUE
    /\ pc' = IF crash THEN "crashed" ELSE pc

\* m_staffGrpStack.pop_back() as it would be if the group were left open.
PopGroupKept(stack) == stack

\* m_staffGrpStack.pop_back() on a stack that is not empty
PopGroup(stack) == Front(stack)

\* group-symbol -> StaffGrp @symbol
GroupSymbol(str) == IF str \in {"bracket", "brace", "line"} THEN str ELSE ""

\* A part-group child of the part-list: @type start opens a StaffGrp under the
\* top of the stack, every other @type pops the stack.
PartGroup(type, groupSymbol, crash) ==
    /\ pc = "partlist"
    /\ Len(plist) < MaxListLen
    /\ plist' = Append(plist, [kind |-> "part-group", type |-> type, nb |-> 0])
    /\ IF type = "start"
       THEN LET grp == NewId(heap)
                h1 == New(heap, [Obj("STAFFGRP") EXCEPT !.symbol = GroupSymbol(groupSymbol)])
            IN IF m_staffGrpStack = <<>>
               THEN /\ Undefined(crash)
                    /\ heap' = h1
                    /\ m_staffGrpStack' = IF crash THEN m_staffGrpStack ELSE <<grp>>
               ELSE /\ heap' = AddChild(h1, Last(m_staffGrpStack), grp)
                    /\ m_staffGrpStack' = Append(m_staffGrpStack, grp)
                    /\ UNCHANGED <<ub, pc>>
       ELSE IF m_staffGrpStack = <<>>
            THEN /\ Undefined(crash)
                 /\ UNCHANGED <<heap, m_staffGrpStack>>
            ELSE /\ m_staffGrpStack' = PopGroup(m_staffGrpStack)
                 /\ UNCHANGED <<heap, ub, pc>>
    /\ UNCHANGED <<loaded, ret, nWarn, m_doc, section, staffOffset, posVars, cursorVars,
                   spanVars, pendVars, ctlVars, finVars>>

\* A child of the part-list that is neither part-group nor score-part.
OtherPartListChild ==
    /\ pc = "partlist"
    /\ Len(plist) < MaxListLen
    /\ plist' = Append(plist, [kind |-> "other", type |-> "", nb |-> 0])
    /\ UNCHANGED <<pc, loaded, ret, ub, nWarn, docVars, m_staffGrpStack, staffOffset, posVars,
                   cursorVars, spanVars, pendVars, ctlVars, finVars>>

\* The staffDef loop of ReadMusicXmlPartAttributesAsStaffDef for one element of
\* the leading run: find or create StaffDef i + 1 + staffOffset, i < nbStaves;
\* each StaffDef created adds a slot to m_octDis.
RECURSIVE CreateStaffDefs(_, _, _, _, _, _)
CreateStaffDefs(h, od, grp, nb, off, i) ==
    IF i >= nb THEN [heap |-> h, octDis |-> od]
    ELSE IF FirstKid(h, h[grp].kids, "STAFFDEF", i + 1 + off) # 0
         THEN CreateStaffDefs(h, od, grp, nb, off, i + 1)
         ELSE CreateStaffDefs(
                  AddChild(New(h, [Obj("STAFFDEF") EXCEPT !.n = i + 1 + off]), grp, NewId(h)),
                  Append(od, 0), grp, nb, off, i + 1)

\* ReadMusicXmlPartAttributesAsStaffDef over the leading run `lead` of the
\* part's first measure (each element: its staves and divisions children, <<>>
\* when absent).  Returns the heap, m_octDis, m_ppq and nbStaves.
RECURSIVE ReadMusicXmlPartAttributesAsStaffDef(_, _, _, _, _, _, _)
ReadMusicXmlPartAttributesAsStaffDef(lead, h, od, ppq, grp, off, nb) ==
    IF lead = <<>> THEN [heap |-> h, octDis |-> od, ppq |-> ppq, nbStaves |-> nb]
    ELSE LET b == Head(lead)
             nb1 == IF b.staves = <<>> THEN nb
                    ELSE IF b.staves[1] > 0 THEN b.staves[1] ELSE 1
             r == CreateStaffDefs(h, od, grp, nb1, off, 0)
             ppq1 == IF b.divisions = <<>> THEN ppq ELSE b.divisions[1]
         IN ReadMusicXmlPartAttributesAsStaffDef(Tail(lead), r.heap, r.octDis, ppq1,
                                                 grp, off, nb1)

\* A score-part child whose part has no attributes element in its first
\* measure as it would be read if the warning were not followed by `continue`:
\* with one staff and no StaffDef.
ScorePartNotSkipped(p, crash) ==
    /\ pc = "partlist"
    /\ Len(plist) < MaxListLen
    /\ ~p.hasAttr
    /\ m_staffGrpStack # <<>>
    /\ nWarn' = nWarn + 1
    /\ plist' = Append(plist, [kind |-> "score-part", type |-> "skipped", nb |-> 0])
    /\ heap' = Delete(New(heap, Obj("STAFFGRP")), NewId(heap))
    /\ part' = [nbStaves |-> 1, nMeasures |-> p.nMeasures, i |-> 0]
    /\ pc' = "part"
    /\ UNCHANGED <<loaded, ret, ub, m_doc, section, m_staffGrpStack, staffOffset, measure,
                   measureNum, read, nextNote, cursorVars, spanVars, pendVars, ctlVars,
                   finVars>>

\* A score-part child: skipped with a warning when the part's first measure has
\* no attributes element; otherwise its StaffDefs are created and linked under
\* the top of the stack, and the part's measures are read next.
ScorePart(p, crash) ==
    /\ pc = "partlist"
    /\ Len(plist) < MaxListLen
    /\ Cardinality({k \in 1..Len(plist) : plist[k].kind = "score-part"}) < MaxParts
    /\ IF ~p.hasAttr
       THEN /\ nWarn' = nWarn + 1
            /\ plist' = Append(plist, [kind |-> "score-part", type |-> "skipped", nb |-> 0])
            /\ UNCHANGED <<pc, ub, heap, m_octDis, m_ppq, part>>
       ELSE LET grp == NewId(heap)
                r == ReadMusicXmlPartAttributesAsStaffDef(
                         p.lead, New(heap, Obj("STAFFGRP")), m_octDis, m_ppq, grp,
                         staffOffset, 1)
                linked == IF r.nbStaves > 1
                          THEN AddChild([r.heap EXCEPT ![grp].symbol = "brace"],
                                        Last(m_staffGrpStack), grp)
                          ELSE Delete(MoveChildrenFrom(r.heap, Last(m_staffGrpStack), grp), grp)
            IN /\ plist' = Append(plist, [kind |-> "score-part", type |-> "read",
                                          nb |-> r.nbStaves])
               /\ m_octDis' = r.octDis
               /\ m_ppq' = r.ppq
               /\ nWarn' = nWarn
               /\ IF m_staffGrpStack = <<>>
                  THEN /\ ub' = TRUE
                       /\ heap' = r.heap
                       /\ part' = IF crash THEN part
                                  ELSE [nbStaves |-> r.nbStaves, nMeasures |-> p.nMeasures, i |-> 0]
                       /\ pc' = IF crash THEN "crashed" ELSE "part"
                  ELSE /\ heap' = linked
                       /\ part' = [nbStaves |-> r.nbStaves, nMeasures |-> p.nMeasures, i |-> 0]
                       /\ pc' = "part"
                       /\ ub' = ub
    /\ UNCHANGED <<loaded, ret, m_doc, section, m_staffGrpStack, staffOffset, measure, measureNum,
                   read, nextNote, m_meterCount, m_durTotal, m_mRpt, m_elementStack,
                   spanVars, pendVars, ctlVars, finVars>>

\* ------------------------------------------------------------- measures
\* The staves of a new Measure: Staff i + 1 + staffOffset for i < nbStaves.
RECURSIVE AddStaves(_, _, _, _, _)
AddStaves(h, m, nb, off, i) ==
    IF i >= nb THEN h
    ELSE AddStaves(AddChild(New(h, [Obj("STAFF") EXCEPT !.n = i + 1 + off]), m, NewId(h)),
                   m, nb, off, i + 1)

\* ReadMusicXmlPart creates the Measure; ReadMusicXmlMeasure numbers it, gives
\* it its staves and resets the element stack and the measure time.  `num` is
\* the measure's @number, `nn` its first note child (NoNote when it has none).
\* ReadMusicXmlMeasure as it would be if the pending lists were emptied at the
\* start of each measure, like the element stack.
ReadMusicXmlMeasureCleared(num, nn) ==
    /\ pc = "part"
    /\ part.i < part.nMeasures
    /\ LET m == NewId(heap)
       IN /\ heap' = AddStaves(New(heap, [Obj("MEASURE") EXCEPT !.n = num]), m,
                               part.nbStaves, staffOffset, 0)
          /\ measure' = m
    /\ measureNum' = num
    /\ m_elementStack' = <<>>
    /\ m_durTotal' = 0
    /\ nn # NoNote => MaxElems >= 1
    /\ read' = Append(read, [kind |-> "measure", num |-> num, i |-> part.i,
                              m |-> NewId(heap),
                              top |-> NewId(heap) + part.nbStaves])
    /\ nextNote' = nn
    /\ pc' = "measure"
    /\ m_dirStack' = <<>> /\ m_dynamStack' = <<>> /\ m_harmStack' = <<>>
    /\ m_octaveStack' = <<>> /\ m_pedalStack' = <<>> /\ m_tempoStack' = <<>>
    /\ UNCHANGED <<loaded, ret, ub, nWarn, m_doc, section, grpVars, part, m_octDis, m_ppq,
                   m_meterCount, m_mRpt, spanVars, ctlVars, finVars>>

ReadMusicXmlMeasure(num, nn) ==
    /\ pc = "part"
    /\ part.i < part.nMeasures
    /\ LET m == NewId(heap)
       IN /\ heap' = AddStaves(New(heap, [Obj("MEASURE") EXCEPT !.n = num]), m,
                               part.nbStaves, staffOffset, 0)
          /\ measure' = m
    /\ measureNum' = num
    /\ m_elementStack' = <<>>
    /\ m_durTotal' = 0
    /\ nn # NoNote => MaxElems >= 1
    /\ read' = Append(read, [kind |-> "measure", num |-> num, i |-> part.i,
                              m |-> NewId(heap),
                              top |-> NewId(heap) + part.nbStaves])
    /\ nextNote' = nn
    /\ pc' = "measure"
    /\ UNCHANGED <<loaded, ret, ub, nWarn, m_doc, section, grpVars, part, m_octDis, m_ppq,
                   m_meterCount, m_mRpt, spanVars, pendVars, ctlVars, finVars>>

\* AddMeasure as it would be if every measure were added to the section.
AddMeasureAppended(h, sect, m, i) == AddChild(h, sect, m)

\* AddMeasure(section, measure, i)
AddMeasure(h, sect, m, i) ==
    LET count == CountKids(h, h[sect].kids, "MEASURE")
    IN IF i = count THEN AddChild(h, sect, m)
       ELSE IF count > i THEN MoveChildrenFrom(h, h[sect].kids[i + 1], m)
       ELSE h

\* The end of a measure element: AddMeasure, i++; after the part's last
\* measure ReadMusicXml adds nbStaves to staffOffset and goes on with the
\* part-list.
EndMeasure ==
    /\ pc = "measure"
    /\ nextNote = NoNote
    /\ heap' = AddMeasure(heap, section, measure, part.i)
    /\ nWarn' = IF part.i > CountKids(heap, heap[section].kids, "MEASURE")
                THEN nWarn + 1 ELSE nWarn
    /\ measure' = 0
    /\ IF part.i + 1 = part.nMeasures
       THEN /\ staffOffset' = staffOffset + part.nbStaves
            /\ part' = NoPart
            /\ pc' = "partlist"
       ELSE /\ part' = [part EXCEPT !.i = @ + 1]
            /\ pc' = "part"
            /\ staffOffset' = staffOffset
    /\ UNCHANGED <<loaded, ret, ub, m_doc, section, m_staffGrpStack, plist, measureNum, read,
                   nextNote, cursorVars, spanVars, pendVars, ctlVars, finVars>>

\* ----------------------------------------------------------- final pass
\* The part-list has no more children: ReadMusicXml goes on to its loop over
\* m_controlElements.
PartListEnd ==
    /\ pc = "partlist"
    /\ pc' = "ctrl"
    /\ ci' = 1
    /\ curMeasure' = 0
    /\ UNCHANGED <<loaded, ret, ub, nWarn, docVars, grpVars, posVars, cursorVars, spanVars,
                   pendVars, ctlVars>>

\* One iteration of the loop over m_controlElements as it would be if the
\* element were added to the first Measure of the section whatever its number.
AttachToFirstMeasure ==
    /\ pc = "ctrl"
    /\ ci <= Len(m_controlElements)
    /\ curMeasure' = heap[section].kids[1]
    /\ heap' = AddChild(heap, heap[section].kids[1], m_controlElements[ci][2])
    /\ nWarn' = nWarn
    /\ ci' = ci + 1
    /\ UNCHANGED <<pc, loaded, ret, ub, m_doc, section, grpVars, posVars, cursorVars, spanVars,
                   pendVars, ctlVars>>

\* The end of ReadMusicXml as it would be if it did not wait for the loop over
\* m_controlElements.
ConvertBeforeAttach ==
    /\ pc = "ctrl"
    /\ m_doc' = [m_doc EXCEPT !.paged = @ + 1]
    /\ ret' = <<TRUE>>
    /\ pc' = "done"
    /\ UNCHANGED <<loaded, ub, nWarn, heap, section, grpVars, posVars, cursorVars,
                   spanVars, pendVars, ctlVars, finVars>>

\* One iteration of the loop over m_controlElements: the Measure is looked up
\* by number unless the cached one has that number; the element is added to it,
\* or dropped with a warning when no Measure has the number.
AttachControlElement ==
    /\ pc = "ctrl"
    /\ ci <= Len(m_controlElements)
    /\ LET e == m_controlElements[ci]
           m == IF curMeasure = 0 \/ heap[curMeasure].n # e[1]
                THEN FirstKid(heap, heap[section].kids, "MEASURE", e[1])
                ELSE curMeasure
       IN /\ curMeasure' = m
          /\ IF m = 0
             THEN /\ nWarn' = nWarn + 1
                  /\ heap' = heap
             ELSE /\ heap' = AddChild(heap, m, e[2])
                  /\ nWarn' = nWarn
    /\ ci' = ci + 1
    /\ UNCHANGED <<pc, loaded, ret, ub, m_doc, section, grpVars, posVars, cursorVars, spanVars,
                   pendVars, ctlVars>>

\* After the loop: m_doc->ConvertToPageBasedDoc(); return true.
ConvertToPageBasedDoc ==
    /\ pc = "ctrl"
    /\ ci > Len(m_controlElements)
    /\ m_doc' = [m_doc EXCEPT !.paged = @ + 1]
    /\ ret' = <<TRUE>>
    /\ pc' = "done"
    /\ UNCHANGED <<loaded, ub, nWarn, heap, section, grpVars, posVars, cursorVars,
                   spanVars, pendVars, ctlVars, finVars>>

\* ------------------------------------------------- the measure's children
\* The importer's fields a handler of a measure child reads and writes, as
\* one record that the steps of the handler pass on; layer and staff hold the
\* handler's local variables of those names.
Fields ==
    [heap |-> heap, stack |-> m_elementStack, durTotal |-> m_durTotal,
     octDis |-> m_octDis, mRpt |-> m_mRpt,
     tieStack |-> m_tieStack, slurStack |-> m_slurStack,
     hairpinStack |-> m_hairpinStack,
     dirStack |-> m_dirStack, dynamStack |-> m_dynamStack, harmStack |-> m_harmStack,
     octaveStack |-> m_octaveStack, pedalStack |-> m_pedalStack,
     tempoStack |-> m_tempoStack,
     ctl |-> m_controlElements, ID |-> m_ID, nWarn |-> nWarn, ub |-> ub,
     crash |-> FALSE, layer |-> 0, staff |-> 0, element |-> 0, note |-> 0]

\* What the history keeps of a measure child e and of its handler's result r:
\* the element m_ID was set to and the Note created (0 when none), the numbers of
\* the staff and layer the handler resolved (0 when it resolved none), the
\* measure, m_mRpt when the handler began, the last object and the m_durTotal
\* it left, the warnings it logged.
Entry(e, r) ==
    [kind |-> e.kind, e |-> e, id |-> r.element, note |-> r.note,
     staffN |-> IF r.staff = 0 THEN 0 ELSE r.heap[r.staff].n,
     layerN |-> IF r.layer = 0 THEN 0 ELSE r.heap[r.layer].n,
     layer |-> r.layer, m |-> measure, mRpt |-> m_mRpt, top |-> Len(r.heap),
     cursor |-> r.durTotal, warns |-> r.nWarn - nWarn]

\* The children of the current measure read so far.
RECURSIVE Here(_)
Here(hist) ==
    IF hist = <<>> \/ Last(hist).kind = "measure" THEN <<>>
    ELSE Append(Here(Front(hist)), Last(hist))

\* The fields after the handler, and the child it read appended to the history.
Handled(e, r) ==
    /\ heap' = r.heap
    /\ m_elementStack' = r.stack
    /\ m_durTotal' = r.durTotal
    /\ m_octDis' = r.octDis
    /\ m_mRpt' = r.mRpt
    /\ m_tieStack' = r.tieStack
    /\ m_slurStack' = r.slurStack
    /\ m_hairpinStack' = r.hairpinStack
    /\ m_dirStack' = r.dirStack
    /\ m_dynamStack' = r.dynamStack
    /\ m_harmStack' = r.harmStack
    /\ m_octaveStack' = r.octaveStack
    /\ m_pedalStack' = r.pedalStack
    /\ m_tempoStack' = r.tempoStack
    /\ m_controlElements' = r.ctl
    /\ m_ID' = r.ID
    /\ nWarn' = r.nWarn
    /\ ub' = r.ub
    /\ pc' = IF r.crash THEN "crashed" ELSE pc
    /\ read' = Append(read, Entry(e, r))
    /\ UNCHANGED <<loaded, ret, m_doc, section, grpVars, part, measure, measureNum,
                   m_ppq, m_meterCount, finVars>>

\* Room in the measure for k more children, the note looked ahead at included.
Room(k) == Len(Here(read)) + k <= MaxElems

\* s after new T(): the object is s.heap's last.
WithNew(s, o) == [s EXCEPT !.heap = Append(@, o)]

Warn(s) == [s EXCEPT !.nWarn = @ + 1]

\* SelectLayer(layerNum, staff) as it would be if it never looked for the layer.
SelectLayerNew(s, layerNum, staff) ==
    [s EXCEPT !.heap = AddChild(New(@, [Obj("LAYER") EXCEPT
                                           !.n = IF layerNum = -1 THEN 1 ELSE layerNum]),
                                staff, NewId(s.heap)),
              !.layer = NewId(s.heap), !.staff = staff]

\* SelectLayer(int layerNum, Staff *staff): layerNum -1 is the staff's first
\* layer; the layer is created (with @n layerNum, 1 for -1) when not found.
SelectLayerOfStaff(s, layerNum, staff) ==
    LET kids == s.heap[staff].kids
        found == IF layerNum = -1
                 THEN (IF Len(kids) > 0 THEN kids[1] ELSE 0)
                 ELSE FirstKid(s.heap, kids, "LAYER", layerNum)
        n == IF layerNum = -1 THEN 1 ELSE layerNum
        id == NewId(s.heap)
    IN IF found # 0 THEN [s EXCEPT !.layer = found, !.staff = staff]
       ELSE [s EXCEPT !.heap = AddChild(New(@, [Obj("LAYER") EXCEPT !.n = n]), staff, id),
                      !.layer = id, !.staff = staff]

\* SelectLayer(node, measure) as it would be if a node without voice child took
\* the first layer of its staff.
SelectLayerOfNodeFirst(s, e, m) ==
    LET staffNum == IF e.staff = <<>> THEN 1 ELSE e.staff[1]
        badStaff == staffNum < 1 \/ staffNum > Len(s.heap[m].kids)
        staff == s.heap[m].kids[IF badStaff THEN 1 ELSE staffNum]
        layerNum == IF e.voice = <<>> THEN -1 ELSE e.voice[1]
        badLayer == e.voice # <<>> /\ layerNum < 1
        s1 == IF badStaff THEN Warn(s) ELSE s
        s2 == IF badLayer THEN Warn(s1) ELSE s1
    IN SelectLayerOfStaff(s2, IF badLayer THEN 1 ELSE layerNum, staff)

\* SelectLayer(pugi::xml_node node, Measure *measure): the staff and voice
\* children of the node (a sequence of one number, empty when absent), a staff
\* outside the measure or a voice below 1 replaced by 1 with a warning.
SelectLayerOfNode(s, e, m) ==
    LET staffNum == IF e.staff = <<>> THEN 1 ELSE e.staff[1]
        badStaff == staffNum < 1 \/ staffNum > Len(s.heap[m].kids)
        staff == s.heap[m].kids[IF badStaff THEN 1 ELSE staffNum]
        layerNum == IF e.voice = <<>> THEN 1 ELSE e.voice[1]
        badLayer == layerNum < 1
        s1 == IF badStaff THEN Warn(s) ELSE s
        s2 == IF badLayer THEN Warn(s1) ELSE s1
    IN SelectLayerOfStaff(s2, IF badLayer THEN 1 ELSE layerNum, staff)

\* Object::GetFirst(cls): the first direct child of the class, 0 when none.
RECURSIVE GetFirst(_, _, _)
GetFirst(h, kids, cls) ==
    IF kids = <<>> THEN 0
    ELSE IF h[Head(kids)].cls = cls THEN Head(kids)
    ELSE GetFirst(h, Tail(kids), cls)

\* AddLayerElement: into the layer when the element stack is empty, else into
\* the element on top of the stack.
AddLayerElement(s, layer, element) ==
    [s EXCEPT !.heap = AddChild(@, IF s.stack = <<>> THEN layer ELSE Last(s.stack),
                                element)]

\* s after new T() and AddLayerElement(layer, it)
WithLayerElement(s, layer, o) ==
    AddLayerElement(WithNew(s, o), layer, NewId(s.heap))

\* m_elementStack.push_back
Push(s, id) == [s EXCEPT !.stack = Append(@, id)]

\* RemoveLastFromStack as it would be if it popped the stack.
RemoveTop(h, stack, cls) == IF stack = <<>> THEN stack ELSE Front(stack)

\* RemoveLastFromStack(classId): the stack without its topmost element of the
\* class; unchanged when it holds none.
RECURSIVE RemoveLastFromStack(_, _, _)
RemoveLastFromStack(h, stack, cls) ==
    IF stack = <<>> THEN stack
    ELSE IF h[Last(stack)].cls = cls THEN Front(stack)
    ELSE Append(RemoveLastFromStack(h, Front(stack), cls), Last(stack))

Unstack(s, cls) == [s EXCEPT !.stack = RemoveLastFromStack(s.heap, @, cls)]

TopIs(s, cls) == s.stack # <<>> /\ s.heap[Last(s.stack)].cls = cls

\* int(a / b) of C++: the quotient truncated towards zero.
Trunc(a, b) ==
    IF (a >= 0) = (b > 0) THEN (IF a >= 0 THEN a \div b ELSE (-a) \div (-b))
    ELSE IF a >= 0 THEN -(a \div (-b)) ELSE -((-a) \div b)

\* AttDurationMusical::StrToDuration(std::to_string(k)): the data_DURATION whose
\* name is the decimal text of k, "" (DURATION_NONE, with a warning) when no
\* duration has that name.
DurationNames == {"1", "2", "4", "8", "16", "32", "64", "128", "256"}
StrToDuration(k) ==
    CASE k = 1 -> "1"
      [] k = 2 -> "2"
      [] k = 4 -> "4"
      [] k = 8 -> "8"
      [] k = 16 -> "16"
      [] k = 32 -> "32"
      [] k = 64 -> "64"
      [] k = 128 -> "128"
      [] k = 256 -> "256"
      [] OTHER -> ""

\* The bits of a float's mantissa.
FloatMantissa == 24

\* The distance between the floats around the integer x >= 0.
RECURSIVE Ulp(_)
Ulp(x) == IF x < 2^FloatMantissa THEN 1 ELSE 2 * Ulp(x \div 2)

\* (float)x of an integer x: the float nearest to x, the one with the even
\* mantissa when x is half way between two.
RECURSIVE ToFloat(_)
ToFloat(x) ==
    IF x < 0 THEN 0 - ToFloat(0 - x)
    ELSE LET u == Ulp(x)
             lo == (x \div u) * u
             r == x - lo
         IN IF 2 * r < u THEN lo
            ELSE IF 2 * r > u THEN lo + u
            ELSE IF (lo \div u) % 2 = 0 THEN lo ELSE lo + u

\* One iteration of FillSpace's loop for the remaining dur: quaters = dur / ppq,
\* truncated to an integer above 1 and limited to 2; the Space gets the duration
\* named int(4 / quaters); dur -= ppq * quaters is a float subtraction whose
\* result is converted to int.  With quaters 1 or 2 the product is exact and the
\* difference is rounded to a float; with quaters at most 1 the product is dur up
\* to a rounding error below 1, which the int conversion drops (dur and ppq
\* below 2^23).  int(4 / quaters) is the exact quotient wherever that names a
\* duration.
FillQuaters(dur, ppq) ==
    IF dur > ppq
    THEN LET q == IF dur \div ppq > 2 THEN 2 ELSE dur \div ppq
         IN [space |-> Trunc(4, q), left |-> ToFloat(ToFloat(dur) - ppq * q)]
    ELSE [space |-> Trunc(4 * ppq, dur), left |-> 0]

\* The body of FillSpace's loop: a Space of that duration goes into the layer.
FillStep(s, layer, dur, ppq) ==
    LET d == StrToDuration(FillQuaters(dur, ppq).space)
    IN WithLayerElement(IF d = "" THEN Warn(s) ELSE s, layer,
                        [Obj("SPACE") EXCEPT !.dur = d])

\* FillSpace(layer, dur), for m_ppq > 0
RECURSIVE FillSpace(_, _, _, _)
FillSpace(s, layer, dur, ppq) ==
    IF dur = 0 THEN s
    ELSE FillSpace(FillStep(s, layer, dur, ppq), layer, FillQuaters(dur, ppq).left, ppq)

\* ConvertTypeToDur: the data_DURATION of a type element's text, "" (NONE,
\* with a warning) for any other text.
TypeNames == {"maxima", "long", "breve", "whole", "half", "quarter", "eighth", "16th",
              "32nd", "64th", "128th", "256th"}
ConvertTypeToDur(value) ==
    CASE value = "maxima" -> "maxima"
      [] value = "long" -> "long"
      [] value = "breve" -> "breve"
      [] value = "whole" -> "1"
      [] value = "half" -> "2"
      [] value = "quarter" -> "4"
      [] value = "eighth" -> "8"
      [] value = "16th" -> "16"
      [] value = "32nd" -> "32"
      [] value = "64th" -> "64"
      [] value = "128th" -> "128"
      [] value = "256th" -> "256"
      [] OTHER -> ""

\* ConvertStepToPitchName: "" (PITCHNAME_NONE, with a warning) outside C..B.
StepNames == {"C", "D", "E", "F", "G", "A", "B"}
ConvertStepToPitchName(value) ==
    CASE value = "C" -> "c"
      [] value = "D" -> "d"
      [] value = "E" -> "e"
      [] value = "F" -> "f"
      [] value = "G" -> "g"
      [] value = "A" -> "a"
      [] value = "B" -> "b"
      [] OTHER -> ""

\* s after ConvertTypeToDur(typeStr) logged its warning, if any
TypeWarned(s, typeStr) == IF typeStr \in TypeNames THEN s ELSE Warn(s)

\* ------------------------------------------------------------------ notes
\* A note element: the children and attributes the handler reads.  staff,
\* voice and octave are sequences of one value, empty when the child is absent
\* or empty; step is the text of pitch/step; tremolo is the type of notations/ornaments/tremolo, beam the text of
\* beam[@number='1'], slurs the (type, number) of the notations' slur children,
\* marks the classes of the annotations made from the notations (dynamics,
\* fermata, mordent, inverted-mordent, trill-mark, turn, inverted-turn, in the
\* handler's order), artics the number of articulations and technical children.
DefNote ==
    [kind |-> "note", chord |-> FALSE, rest |-> FALSE, measureRest |-> FALSE,
     printObject |-> TRUE, staff |-> <<>>, voice |-> <<>>, duration |-> 0,
     type |-> "quarter", dots |-> 0, pitch |-> TRUE, step |-> "C", octave |-> <<4>>,
     tiedStart |-> FALSE, tiedStop |-> FALSE, tremolo |-> "", beam |-> "",
     tupletStart |-> FALSE, tupletStop |-> FALSE, slurs |-> <<>>, marks |-> <<>>,
     artics |-> 0]

\* m_octDis[i]: slot i is the (i + 1)-th of the sequence.  An index outside the
\* vector is undefined behaviour: the read yields u.val or the run crashes.
InOctDis(s, i) == i >= 0 /\ i < Len(s.octDis)
OctDisRead(s, i, u) == IF InOctDis(s, i) THEN s.octDis[i + 1] ELSE u.val
OctDisUndefined(s, i, u) ==
    IF InOctDis(s, i) THEN s ELSE [s EXCEPT !.ub = TRUE, !.crash = @ \/ u.crash]

\* tremolos, beam start, tuplet start: each container goes into the layer (or
\* the open container) and onto the element stack.
Container(s, layer, cls) == Push(WithLayerElement(s, layer, Obj(cls)), NewId(s.heap))

NoteContainers(s, e, layer) ==
    LET s1 == IF e.tremolo = "single" THEN Container(s, layer, "BTREM")
              ELSE IF e.tremolo = "start" THEN Container(s, layer, "FTREM")
              ELSE s
        s2 == IF e.beam = "begin" THEN Container(s1, layer, "BEAM") ELSE s1
    IN IF e.tupletStart THEN Container(s2, layer, "TUPLET") ELSE s2

\* The rest branch: a Space for print-object="no", an MRest for a rest without
\* type or with measure="yes", else a Rest with duration and dots.
NoteRest(s, e, layer) ==
    LET id == NewId(s.heap)
        o == IF ~e.printObject
             THEN [Obj("SPACE") EXCEPT !.dur = ConvertTypeToDur(e.type)]
             ELSE IF e.type = "" \/ e.measureRest THEN Obj("MREST")
             ELSE [Obj("REST") EXCEPT !.dur = ConvertTypeToDur(e.type), !.dots = e.dots]
        s1 == IF o.cls = "MREST" THEN s ELSE TypeWarned(s, e.type)
    IN [WithLayerElement(s1, layer, o) EXCEPT !.element = id]

\* CloseTie: the first entry of m_tieStack with the note's staff and layer
\* numbers, pname and oct gets the note as end and is erased; a warning when the
\* note has no tie stop.
RECURSIVE TieMatch(_, _, _, _, _)
TieMatch(ts, k, staffN, layerN, note) ==
    IF k > Len(ts) THEN 0
    ELSE IF /\ ts[k].staffN = staffN /\ ts[k].layerN = layerN
            /\ ts[k].pname = note.pname /\ ts[k].oct = note.oct THEN k
    ELSE TieMatch(ts, k + 1, staffN, layerN, note)

Erase(seq, k) == SubSeq(seq, 1, k - 1) \o SubSeq(seq, k + 1, Len(seq))

\* CloseTie as it would be if it closed the oldest pending tie whenever one matches.
CloseTieHead(s, staff, layer, note, isClosingTie) ==
    LET k == TieMatch(s.tieStack, 1, s.heap[staff].n, s.heap[layer].n, s.heap[note])
    IN IF k = 0 THEN s
       ELSE LET s1 == [s EXCEPT !.heap[s.tieStack[1].tie].endid = Ref(note),
                                !.tieStack = Tail(@)]
            IN IF isClosingTie THEN s1 ELSE Warn(s1)

\* CloseTie as it would be if it logged a warning for a tie stop without match.
CloseTieWarnsUnmatched(s, staff, layer, note, isClosingTie) ==
    LET k == TieMatch(s.tieStack, 1, s.heap[staff].n, s.heap[layer].n, s.heap[note])
    IN IF k = 0 THEN (IF isClosingTie THEN Warn(s) ELSE s)
       ELSE LET s1 == [s EXCEPT !.heap[s.tieStack[k].tie].endid = Ref(note),
                                !.tieStack = Erase(@, k)]
            IN IF isClosingTie THEN s1 ELSE Warn(s1)

\* CloseTie as it would be if it left the closed entry in m_tieStack.
CloseTieNotErased(s, staff, layer, note, isClosingTie) ==
    LET k == TieMatch(s.tieStack, 1, s.heap[staff].n, s.heap[layer].n, s.heap[note])
    IN IF k = 0 THEN s
       ELSE LET s1 == [s EXCEPT !.heap[s.tieStack[k].tie].endid = Ref(note)]
            IN IF isClosingTie THEN s1 ELSE Warn(s1)

CloseTie(s, staff, layer, note, isClosingTie) ==
    LET k == TieMatch(s.tieStack, 1, s.heap[staff].n, s.heap[layer].n, s.heap[note])
    IN IF k = 0 THEN s
       ELSE LET s1 == [s EXCEPT !.heap[s.tieStack[k].tie].endid = Ref(note),
                                !.tieStack = Erase(@, k)]
            IN IF isClosingTie THEN s1 ELSE Warn(s1)

\* OpenTie as it would be if it left the Tie without startid.
OpenTieNotStarted(s, staff, layer, note, tie) ==
    [s EXCEPT !.tieStack = Append(@, [tie |-> tie, staffN |-> s.heap[staff].n,
                                      layerN |-> s.heap[layer].n,
                                      pname |-> s.heap[note].pname,
                                      oct |-> s.heap[note].oct])]

\* OpenTie
OpenTie(s, staff, layer, note, tie) ==
    [s EXCEPT !.heap[tie].startid = Ref(note),
              !.tieStack = Append(@, [tie |-> tie, staffN |-> s.heap[staff].n,
                                      layerN |-> s.heap[layer].n,
                                      pname |-> s.heap[note].pname,
                                      oct |-> s.heap[note].oct])]

\* m_controlElements.push_back(std::make_pair(measureNum, element))
Control(s, num, id) == [s EXCEPT !.ctl = Append(@, <<num, id>>)]

\* The ties of a note as they would be if the new Tie were opened before CloseTie.
NoteTiesOpenedFirst(s, e, staff, layer, note, num) ==
    LET tie == NewId(s.heap)
        s1 == IF e.tiedStart
              THEN OpenTie(Control(WithNew(s, Obj("TIE")), num, tie), staff, layer, note, tie)
              ELSE s
    IN CloseTie(s1, staff, layer, note, e.tiedStop)

\* The ties of a note: CloseTie, then a new Tie for a tied start.
NoteTies(s, e, staff, layer, note, num) ==
    LET s1 == CloseTie(s, staff, layer, note, e.tiedStop)
        tie == NewId(s1.heap)
    IN IF e.tiedStart
       THEN OpenTie(Control(WithNew(s1, Obj("TIE")), num, tie), staff, layer, note, tie)
       ELSE s1

\* k Artic children for the element
RECURSIVE Artics(_, _, _)
Artics(s, element, k) ==
    IF k = 0 THEN s
    ELSE Artics([s EXCEPT !.heap = AddChild(New(@, Obj("ARTIC")), element, NewId(s.heap))],
                element, k - 1)

\* The note branch up to AddLayerElement: the Note with pitch and octave (the
\* octave moved by the staff's m_octDis), the Chord when the next note sibling
\* nn carries a chord child and no Chord is on top of the stack, duration and
\* dots on the Note unless a Chord is on top, ties, articulations.
NotePitch(s, e, staff, note, u) ==
    IF ~e.pitch THEN s
    ELSE LET s1 == IF e.step = "" THEN s
                   ELSE [(IF e.step \in StepNames THEN s ELSE Warn(s))
                            EXCEPT !.heap[note].pname = ConvertStepToPitchName(e.step)]
             i == s.heap[staff].n
             dis == OctDisRead(s1, i, u)
         IN IF e.octave = <<>> THEN s1
            ELSE IF dis # 0
            THEN [OctDisUndefined(s1, i, u) EXCEPT !.heap[note].oct = <<e.octave[1] + dis>>,
                                                   !.heap[note].octGes = e.octave]
            ELSE [OctDisUndefined(s1, i, u) EXCEPT !.heap[note].oct = e.octave]

NoteChord(s, e, layer, nextIsChord) ==
    IF nextIsChord /\ ~TopIs(s, "CHORD")
    THEN LET chord == NewId(s.heap)
             o == [Obj("CHORD") EXCEPT !.dur = ConvertTypeToDur(e.type), !.dots = e.dots]
         IN [Push(WithLayerElement(TypeWarned(s, e.type), layer, o), chord)
                EXCEPT !.element = chord]
    ELSE s

NoteAttributes(s, e, note) ==
    IF ~TopIs(s, "CHORD")
    THEN [TypeWarned(s, e.type) EXCEPT !.heap[note].dur = ConvertTypeToDur(e.type),
                                       !.heap[note].dots = e.dots]
    ELSE s

NotePitched(s, e, staff, layer, nn, num, u) ==
    LET note == NewId(s.heap)
        nextIsChord == nn.kind = "note" /\ nn.chord
        s1 == [WithNew(s, Obj("NOTE")) EXCEPT !.element = note, !.note = note]
        s2 == NotePitch(s1, e, staff, note, u)
        s3 == NoteChord(s2, e, layer, nextIsChord)
        s4 == NoteAttributes(s3, e, note)
        s5 == NoteTies(s4, e, staff, layer, note, num)
        s6 == Artics(s5, s5.element, e.artics)
        s7 == AddLayerElement(s6, layer, note)
    IN IF ~nextIsChord /\ TopIs(s7, "CHORD") THEN Unstack(s7, "CHORD") ELSE s7

\* The annotations made from the notations of a note, each with the staff's
\* number and m_ID as start.
RECURSIVE NoteMarks(_, _, _, _)
NoteMarks(s, marks, staff, num) ==
    IF marks = <<>> THEN s
    ELSE LET id == NewId(s.heap)
             o == [Obj(Head(marks)) EXCEPT !.staff = <<s.heap[staff].n>>, !.startid = s.ID]
         IN NoteMarks(Control(WithNew(s, o), num, id), Tail(marks), staff, num)

\* OpenSlur and CloseSlur
OpenSlur(s, staff, layer, number, slur) ==
    [s EXCEPT !.heap[slur].startid = s.ID,
              !.slurStack = Append(@, [slur |-> slur, staffN |-> s.heap[staff].n,
                                       layerN |-> s.heap[layer].n, number |-> number])]

RECURSIVE SlurMatch(_, _, _, _, _)
SlurMatch(ss, k, staffN, layerN, number) ==
    IF k > Len(ss) THEN 0
    ELSE IF ss[k].staffN = staffN /\ ss[k].layerN = layerN /\ ss[k].number = number THEN k
    ELSE SlurMatch(ss, k + 1, staffN, layerN, number)

\* CloseSlur as it would be if it closed the pending slur inserted last.
RECURSIVE SlurMatchLast(_, _, _, _, _)
SlurMatchLast(ss, k, staffN, layerN, number) ==
    IF k = 0 THEN 0
    ELSE IF ss[k].staffN = staffN /\ ss[k].layerN = layerN /\ ss[k].number = number THEN k
    ELSE SlurMatchLast(ss, k - 1, staffN, layerN, number)

CloseSlurLast(s, staff, layer, number, element) ==
    LET k == SlurMatchLast(s.slurStack, Len(s.slurStack), s.heap[staff].n,
                           s.heap[layer].n, number)
    IN IF k = 0 THEN Warn(s)
       ELSE [s EXCEPT !.heap[s.slurStack[k].slur].endid = Ref(element),
                      !.slurStack = Erase(@, k)]

CloseSlur(s, staff, layer, number, element) ==
    LET k == SlurMatch(s.slurStack, 1, s.heap[staff].n, s.heap[layer].n, number)
    IN IF k = 0 THEN Warn(s)
       ELSE [s EXCEPT !.heap[s.slurStack[k].slur].endid = Ref(element),
                      !.slurStack = Erase(@, k)]

\* The slur children of the notations, in order; a number below 1 counts as 1.
RECURSIVE NoteSlurs(_, _, _, _, _)
NoteSlurs(s, slurs, staff, layer, num) ==
    IF slurs = <<>> THEN s
    ELSE LET sl == Head(slurs)
             number == IF sl.number < 1 THEN 1 ELSE sl.number
             id == NewId(s.heap)
             s1 == IF sl.type = "start"
                   THEN OpenSlur(Control(WithNew(s, Obj("SLUR")), num, id), staff, layer,
                                 number, id)
                   ELSE IF sl.type = "stop"
                   THEN CloseSlur(s, staff, layer, number, s.element)
                   ELSE s
         IN NoteSlurs(s1, Tail(slurs), staff, layer, num)

\* tremolo end, tuplet end, beam end
NoteEnds(s, e) ==
    LET s1 == IF e.tremolo = "single" THEN Unstack(s, "BTREM") ELSE s
        s2 == IF e.tremolo = "stop" THEN Unstack(s1, "FTREM") ELSE s1
        s3 == IF e.tupletStop THEN Unstack(s2, "TUPLET") ELSE s2
    IN IF e.beam = "end" THEN Unstack(s3, "BEAM") ELSE s3

\* SetStaff and SetStartid(m_ID) on every element of a pending list
RECURSIVE StartAll(_, _, _, _)
StartAll(h, ids, staffN, ID) ==
    IF ids = <<>> THEN h
    ELSE StartAll([h EXCEPT ![Head(ids)].staff = <<staffN>>, ![Head(ids)].startid = ID],
                  Tail(ids), staffN, ID)

\* The flush as it would be if it left the pending lists as they are.
FlushNotCleared(s, staff) ==
    LET all == s.dirStack \o s.dynamStack \o s.harmStack \o s.octaveStack
               \o s.pedalStack \o s.tempoStack
    IN [s EXCEPT !.heap = StartAll(@, all, s.heap[staff].n, s.ID)]

\* add StartIDs to dir, dynam, harm, octave, pedal and tempo; clear the lists
Flush(s, staff) ==
    LET all == s.dirStack \o s.dynamStack \o s.harmStack \o s.octaveStack
               \o s.pedalStack \o s.tempoStack
    IN [s EXCEPT !.heap = StartAll(@, all, s.heap[staff].n, s.ID),
                 !.dirStack = <<>>, !.dynamStack = <<>>, !.harmStack = <<>>,
                 !.octaveStack = <<>>, !.pedalStack = <<>>, !.tempoStack = <<>>]

\* add StartID to the hairpins without one; every open hairpin's m_endID
RECURSIVE StartHairpins(_, _, _, _)
StartHairpins(h, hs, staffN, ID) ==
    IF hs = <<>> THEN h
    ELSE LET id == Head(hs).hairpin
         IN StartHairpins(IF h[id].startid = NoRef
                          THEN [h EXCEPT ![id].staff = <<staffN>>, ![id].startid = ID]
                          ELSE h,
                          Tail(hs), staffN, ID)

Hairpins(s, staff) ==
    [s EXCEPT !.heap = StartHairpins(@, s.hairpinStack, s.heap[staff].n, s.ID),
              !.hairpinStack = [k \in 1..Len(@) |-> [@[k] EXCEPT !.endID = s.ID]]]

\* The measure time as it would be if the notes with a chord marker counted too.
MeasureTimeOfEveryNote(s, e) == [s EXCEPT !.durTotal = @ + e.duration]

\* add duration to measure time: not for a note with a chord child
MeasureTime(s, e) == IF e.chord THEN s ELSE [s EXCEPT !.durTotal = @ + e.duration]

\* ReadMusicXmlNote(node, measure, measureNum), nn the next note sibling
NoteRead(s0, e, nn, m, num, u) ==
    LET sl == SelectLayerOfNode(s0, e, m)
        layer == sl.layer
        staff == sl.staff
        s1 == MeasureTime(sl, e)
    IN IF s1.mRpt
       THEN (IF GetFirst(s1.heap, s1.heap[layer].kids, "MRPT") = 0
             THEN WithLayerElement(s1, layer, Obj("MRPT")) ELSE s1)
       ELSE LET s2 == NoteContainers(s1, e, layer)
                s3 == IF e.rest THEN NoteRest(s2, e, layer)
                      ELSE NotePitched(s2, e, staff, layer, nn, num, u)
                s4 == [s3 EXCEPT !.ID = Ref(s3.element)]
                s5 == NoteMarks(s4, e.marks, staff, num)
                s6 == NoteSlurs(s5, e.slurs, staff, layer, num)
                s7 == NoteEnds(s6, e)
            IN Hairpins(Flush(s7, staff), staff)

\* ------------------------------------------------- the other children
\* A direction element: the number of words children of its direction-type,
\* whether it has a sound child with a tempo, dynamics, a metronome; wedge,
\* shift (octave-shift), staff and pedal are sequences of one value, empty when
\* the element is absent.
DefDirection ==
    [kind |-> "direction", words |-> 0, soundTempo |-> FALSE, dynamics |-> FALSE,
     wedge |-> <<>>, shift |-> <<>>, staff |-> <<>>, pedal |-> <<>>, metronome |-> FALSE]

\* new T(), m_controlElements.push_back and the pending list's push_back
Pending(s, o, num) == Control(WithNew(s, o), num, NewId(s.heap))

DirWords(s, e, num) ==
    IF e.words # 0 /\ ~e.soundTempo
    THEN [Pending(s, Obj("DIR"), num) EXCEPT !.dirStack = Append(@, NewId(s.heap))]
    ELSE s

DirDynamics(s, e, num) ==
    IF e.dynamics
    THEN LET dynam == NewId(s.heap)
             s1 == WithNew(WithNew(s, Obj("DYNAM")), Obj("TEXT"))
         IN [Control(s1, num, dynam) EXCEPT !.heap = AddChild(@, dynam, dynam + 1),
                                            !.dynamStack = Append(@, dynam)]
    ELSE s

\* The first open hairpin with the number, 0 when none.
RECURSIVE HairpinMatch(_, _, _)
HairpinMatch(hs, k, number) ==
    IF k > Len(hs) THEN 0
    ELSE IF hs[k].dirN = number THEN k
    ELSE HairpinMatch(hs, k + 1, number)

HairpinNumber(w) == IF w.number < 1 THEN 1 ELSE w.number

\* The wedge of a direction that is not a matched stop: a new Hairpin, open
\* under its number, unless the wedge is a stop.
DirWedge(s, e, num) ==
    IF e.wedge = <<>> \/ e.wedge[1].type = "stop" THEN s
    ELSE [Pending(s, Obj("HAIRPIN"), num)
             EXCEPT !.hairpinStack = Append(@, [hairpin |-> NewId(s.heap),
                                                dirN |-> HairpinNumber(e.wedge[1]),
                                                endID |-> NoRef])]

\* m_octDis[staffN] = v: outside the vector the write is undefined behaviour
\* (the run crashes, or goes on with the vector as it was).
OctDisWrite(s, i, v, u) ==
    IF InOctDis(s, i) THEN [s EXCEPT !.octDis[i + 1] = v]
    ELSE [s EXCEPT !.ub = TRUE, !.crash = @ \/ u.crash]

\* SetEndid(m_ID) on every Octave of m_controlElements on staffN without end
RECURSIVE EndOctaves(_, _, _, _)
EndOctaves(h, ctl, staffN, ID) ==
    IF ctl = <<>> THEN h
    ELSE LET id == Head(ctl)[2]
         IN EndOctaves(IF /\ h[id].cls = "OCTAVE"
                          /\ \E k \in 1..Len(h[id].staff) : h[id].staff[k] = staffN
                          /\ h[id].endid = NoRef
                       THEN [h EXCEPT ![id].endid = ID] ELSE h,
                       Tail(ctl), staffN, ID)

DirShift(s, e, num, u) ==
    IF e.shift = <<>> THEN s
    ELSE LET staffN == IF e.staff = <<>> THEN 1 ELSE e.staff[1]
             sh == e.shift[1]
             dis == Trunc(sh.size + 2, 8)
         IN IF sh.type = "stop"
            THEN [OctDisWrite(s, staffN, 0, u)
                     EXCEPT !.heap = EndOctaves(@, s.ctl, staffN, s.ID)]
            ELSE LET o == [Obj("OCTAVE") EXCEPT !.staff = <<staffN>>]
                     s1 == OctDisWrite(s, staffN, IF sh.type = "down" THEN -dis ELSE dis, u)
                 IN [Pending(s1, o, num) EXCEPT !.octaveStack = Append(@, NewId(s.heap))]

DirPedal(s, e, num) ==
    IF e.pedal = <<>> THEN s
    ELSE LET type == e.pedal[1]
             s1 == IF type # "" /\ type \notin {"start", "stop"} THEN Warn(s) ELSE s
             o == IF type = "stop" THEN [Obj("PEDAL") EXCEPT !.startid = s.ID]
                  ELSE Obj("PEDAL")
         IN [Pending(s1, o, num) EXCEPT !.pedalStack = Append(@, NewId(s.heap))]

DirTempo(s, e, num) ==
    IF e.soundTempo \/ e.metronome
    THEN [Pending(s, Obj("TEMPO"), num) EXCEPT !.tempoStack = Append(@, NewId(s.heap))]
    ELSE s

\* ReadMusicXmlDirection: a wedge stop that matches an open hairpin ends it and
\* returns from the handler, after words and dynamics.
DirectionRead(s, e, num, u) ==
    LET s1 == DirDynamics(DirWords(s, e, num), e, num)
        k == IF e.wedge # <<>> /\ e.wedge[1].type = "stop"
             THEN HairpinMatch(s1.hairpinStack, 1, HairpinNumber(e.wedge[1])) ELSE 0
    IN IF k # 0
       THEN [s1 EXCEPT !.heap[s1.hairpinStack[k].hairpin].endid = s1.hairpinStack[k].endID,
                       !.hairpinStack = Erase(@, k)]
       ELSE LET s2 == DirTempo(DirPedal(DirShift(DirWedge(s1, e, num), e, num, u), e, num),
                               e, num)
            IN IF e.words = 0 /\ ~e.dynamics /\ ~e.metronome /\ e.shift = <<>>
                  /\ e.pedal = <<>> /\ e.wedge = <<>>
               THEN Warn(s2) ELSE s2

\* A forward or backup element: duration, staff and voice children.
DefForward == [kind |-> "forward", duration |-> 0, staff |-> <<>>, voice |-> <<>>]
DefBackup == [kind |-> "backup", duration |-> 0, staff |-> <<>>, voice |-> <<>>]

\* ReadMusicXmlForward: hist the children of the measure read before, nn the
\* next note sibling.
\* ReadMusicXmlForward as it would be if the invisible MRest were also made
\* after a note or a backup.
ForwardReadAlwaysRest(s, e, hist, nn, m, ppq) ==
    LET s1 == SelectLayerOfNode([s EXCEPT !.durTotal = @ + e.duration], e, m)
    IN IF nn # NoNote
       THEN LET s2 == IF e.voice = <<>> THEN SelectLayerOfNode(s1, nn, m) ELSE s1
            IN FillSpace(s2, s2.layer, e.duration, ppq)
       ELSE WithLayerElement(s1, s1.layer, [Obj("MREST") EXCEPT !.visible = FALSE])

ForwardRead(s, e, hist, nn, m, ppq) ==
    LET s1 == SelectLayerOfNode([s EXCEPT !.durTotal = @ + e.duration], e, m)
        prev == \E k \in 1..Len(hist) : hist[k].kind \in {"note", "backup"}
    IN IF nn # NoNote
       THEN LET s2 == IF e.voice = <<>> THEN SelectLayerOfNode(s1, nn, m) ELSE s1
            IN FillSpace(s2, s2.layer, e.duration, ppq)
       ELSE IF ~prev
       THEN WithLayerElement(s1, s1.layer, [Obj("MREST") EXCEPT !.visible = FALSE])
       ELSE s1

\* ReadMusicXmlBackup: the Layer it creates is left without parent when the
\* backup has no voice child and the next note's layer is taken.
BackupRead(s, e, nn, m, ppq) ==
    LET s1 == [s EXCEPT !.durTotal = @ - e.duration]
    IN IF nn # NoNote /\ s1.durTotal > 0
       THEN LET orphan == NewId(s1.heap)
                s2 == WithNew(s1, Obj("LAYER"))
                s3 == IF e.voice = <<>> THEN SelectLayerOfNode(s2, nn, m)
                      ELSE [s2 EXCEPT !.layer = orphan]
            IN FillSpace(s3, s3.layer, s3.durTotal, ppq)
       ELSE s1

\* ReadMusicXmlHarmony
HarmonyRead(s, num) ==
    LET harm == NewId(s.heap)
        s1 == WithNew(WithNew(s, Obj("HARM")), Obj("TEXT"))
    IN [Control(s1, num, harm) EXCEPT !.heap = AddChild(@, harm, harm + 1),
                                      !.harmStack = Append(@, harm)]

\* An attributes element inside a measure: clef (its number attribute, whether
\* it has sign and line children) and the type of measure-style/measure-repeat,
\* each a sequence of one value, empty when absent.
DefAttributes == [kind |-> "attributes", clef |-> <<>>, measureRepeat |-> <<>>]

\* SelectLayer(int staffNum, Measure *measure): the first layer of the staff;
\* a staffNum that names no child of the measure makes GetChild return NULL,
\* which is dereferenced.
AttributesClef(s, e, m) ==
    IF e.clef = <<>> THEN s
    ELSE LET c == e.clef[1]
             staffNum == IF c.number = <<>> THEN 1 ELSE c.number[1]
         IN IF staffNum < 1 \/ staffNum > Len(s.heap[m].kids)
            THEN [s EXCEPT !.ub = TRUE, !.crash = TRUE]
            ELSE LET s1 == SelectLayerOfStaff(s, -1, s.heap[m].kids[staffNum])
                 IN IF c.sign /\ c.line
                    THEN WithLayerElement(s1, s1.layer, Obj("CLEF")) ELSE s1

\* ReadMusicXmlAttributes
AttributesRead(s, e, m) ==
    LET s1 == AttributesClef(s, e, m)
    IN IF e.measureRepeat = <<>> \/ s1.crash THEN s1
       ELSE [s1 EXCEPT !.mRpt = (e.measureRepeat[1] = "start")]

\* ------------------------------------------- the dispatch of a measure
\* The outcomes of an undefined access: the run crashes or goes on, an undefined
\* read yielding val.
Outcomes == [crash : BOOLEAN, val : {0, 1}]

\* The outcome handed to a handler where no access is undefined.
Defined == [crash |-> FALSE, val |-> 0]

\* A child that is not a note may be read while the measure has room for it and
\* for the note looked ahead at.
Before == pc = "measure" /\ Room(IF nextNote = NoNote THEN 1 ELSE 2)

\* note: the next note sibling is read; nn is the note sibling after it.
ReadMusicXmlNote(nn, u) ==
    /\ pc = "measure"
    /\ nextNote # NoNote
    /\ nn # NoNote => Room(2)
    /\ nextNote' = nn
    /\ Handled(nextNote, NoteRead(Fields, nextNote, nn, measure, measureNum, u))

ReadMusicXmlDirection(e, u) ==
    /\ Before
    /\ nextNote' = nextNote
    /\ Handled(e, DirectionRead(Fields, e, measureNum, u))

ReadMusicXmlForward(e) ==
    /\ Before
    /\ m_ppq > 0
    /\ nextNote' = nextNote
    /\ Handled(e, ForwardRead(Fields, e, Here(read), nextNote, measure, m_ppq))

ReadMusicXmlBackup(e) ==
    /\ Before
    /\ m_ppq > 0
    /\ nextNote' = nextNote
    /\ Handled(e, BackupRead(Fields, e, nextNote, measure, m_ppq))

ReadMusicXmlHarmony ==
    /\ Before
    /\ nextNote' = nextNote
    /\ Handled([kind |-> "harmony"], HarmonyRead(Fields, measureNum))

ReadMusicXmlAttributes(e) ==
    /\ Before
    /\ nextNote' = nextNote
    /\ Handled(e, AttributesRead(Fields, e, measure))

\* ---------------------------------------------------------- lookup tables
\* The string to attribute converters.  Each gives the value returned ("" is
\* the NONE value of the attribute) and the number of LogWarning calls made.
ConvertAccidentalToAccid(value) ==
    CASE value = "sharp" -> [val |-> "s", warn |-> 0]
      [] value = "natural" -> [val |-> "n", warn |-> 0]
      [] value = "flat" -> [val |-> "f", warn |-> 0]
      [] value = "double-sharp" -> [val |-> "x", warn |-> 0]
      [] value = "sharp-sharp" -> [val |-> "ss", warn |-> 0]
      [] value = "flat-flat" -> [val |-> "ff", warn |-> 0]
      [] value = "natural-sharp" -> [val |-> "ns", warn |-> 0]
      [] value = "natural-flat" -> [val |-> "nf", warn |-> 0]
      [] value = "quarter-flat" -> [val |-> "1qf", warn |-> 0]
      [] value = "quarter-sharp" -> [val |-> "1qs", warn |-> 0]
      [] value = "three-quarters-flat" -> [val |-> "3qf", warn |-> 0]
      [] value = "three-quarters-sharp" -> [val |-> "3qs", warn |-> 0]
      [] OTHER -> [val |-> "", warn |-> 1]

\* ConvertAlterToAccid(float): the value is given in half semitones (-1.5 is -3).
ConvertAlterToAccid(value) ==
    CASE value = -4 -> [val |-> "ff", warn |-> 0]
      [] value = -3 -> [val |-> "fd", warn |-> 0]
      [] value = -2 -> [val |-> "f", warn |-> 0]
      [] value = -1 -> [val |-> "fu", warn |-> 0]
      [] value = 0 -> [val |-> "n", warn |-> 0]
      [] value = 1 -> [val |-> "sd", warn |-> 0]
      [] value = 2 -> [val |-> "s", warn |-> 0]
      [] value = 3 -> [val |-> "su", warn |-> 0]
      [] value = 4 -> [val |-> "ss", warn |-> 0]
      [] OTHER -> [val |-> "", warn |-> 1]

\* ConvertStyleToRend(value, repeat): the first test that succeeds returns, so
\* "regular" gives dbldashed.
ConvertStyleToRend(value, repeat) ==
    CASE value = "dashed" -> [val |-> "dashed", warn |-> 0]
      [] value = "dotted" -> [val |-> "dotted", warn |-> 0]
      [] value = "light-light" -> [val |-> "dbl", warn |-> 0]
      [] value = "regular" -> [val |-> "dbldashed", warn |-> 0]
      [] value = "light-heavy" /\ ~repeat -> [val |-> "end", warn |-> 0]
      [] value = "none" -> [val |-> "invis", warn |-> 0]
      [] value = "heavy-light" /\ repeat -> [val |-> "rptstart", warn |-> 0]
      [] value = "light-heavy" /\ repeat -> [val |-> "rptend", warn |-> 0]
      [] OTHER -> [val |-> "", warn |-> 1]

ConvertWordToBool(value) ==
    CASE value = "yes" -> [val |-> "true", warn |-> 0]
      [] value = "no" -> [val |-> "false", warn |-> 0]
      [] OTHER -> [val |-> "", warn |-> 0]

ConvertOrientationToCurvedir(value) ==
    CASE value = "over" -> [val |-> "above", warn |-> 0]
      [] value = "under" -> [val |-> "below", warn |-> 0]
      [] OTHER -> [val |-> "", warn |-> 0]

ConvertFermataShape(value) ==
    CASE value = "normal" -> [val |-> "curved", warn |-> 0]
      [] value = "angled" -> [val |-> "angular", warn |-> 0]
      [] value = "square" -> [val |-> "square", warn |-> 0]
      [] OTHER -> [val |-> "", warn |-> 0]

\* ConvertPedalTypeToDir as it would be without its LogWarning.
PedalTypeNotWarned(value) ==
    CASE value = "start" -> [val |-> "down", warn |-> 0]
      [] value = "stop" -> [val |-> "up", warn |-> 0]
      [] OTHER -> [val |-> "", warn |-> 0]

ConvertPedalTypeToDir(value) ==
    CASE value = "start" -> [val |-> "down", warn |-> 0]
      [] value = "stop" -> [val |-> "up", warn |-> 0]
      [] OTHER -> [val |-> "", warn |-> 1]

ConvertTupletNumberValue(value) ==
    CASE value = "actual" -> [val |-> "count", warn |-> 0]
      [] value = "both" -> [val |-> "ratio", warn |-> 0]
      [] OTHER -> [val |-> "", warn |-> 0]

\* ConvertTypeToDur and ConvertStepToPitchName with their LogWarning calls.
TypeToDur(value) ==
    [val |-> ConvertTypeToDur(value), warn |-> TypeWarned(Fields, value).nWarn - nWarn]

StepToPitchName(value) ==
    [val |-> ConvertStepToPitchName(value),
     warn |-> IF ConvertStepToPitchName(value) = "" THEN 1 ELSE 0]

\* ------------------------------------------------------- the documents
\* Sequences over S of length at most n.
RECURSIVE SeqsUpTo(_, _)
SeqsUpTo(S, n) ==
    IF n = 0 THEN {<<>>}
    ELSE LET shorter == SeqsUpTo(S, n - 1)
         IN shorter \cup {Append(q, x) : q \in {t \in shorter : Len(t) = n - 1}, x \in S}

\* An attributes element of a leading run: its staves child (0 stands for any
\* text atoi reads as a number below 1) and its divisions child.
Ppq == 2
LeadBlocks == [staves : {<<>>} \cup {<<k>> : k \in 0..MaxStaves}, divisions : {<<Ppq>>}]

\* The parts a score-part may name: without an attributes element in the first
\* measure, or with a leading run of attributes elements.
PartInputs ==
    [hasAttr : {FALSE}, lead : {<<>>}, nMeasures : 1..MaxMeasures]
    \cup [hasAttr : {TRUE}, lead : SeqsUpTo(LeadBlocks, MaxLead) \ {<<>>},
          nMeasures : 1..MaxMeasures]

\* ------------------------------------------- part-list specification
\* Every part-list of part-group, score-part and other children; the measures
\* of the parts have no children.
NextParts ==
    \/ \E parsed \in BOOLEAN : ImportFile(parsed)
    \/ \E type \in {"start", "stop", ""}, sym \in {"bracket", ""}, crash \in BOOLEAN :
          PartGroup(type, sym, crash)
    \/ OtherPartListChild
    \/ \E p \in PartInputs, crash \in BOOLEAN : ScorePart(p, crash)
    \/ ReadMusicXmlMeasure(part.i + 1, NoNote)
    \/ EndMeasure
    \/ PartListEnd
    \/ ConvertToPageBasedDoc

SpecParts == Init /\ [][NextParts]_vars

\* ----------------------------------------------------- part-list claims
\* The part-list has been scanned to its end.
PartListScanned == pc = "ctrl" \/ (pc = "done" /\ ret = <<TRUE>>)

\* The part-group markers of the part-list read so far, in order.
Markers == SelectSeq(plist, LAMBDA c : c.kind = "part-group")

\* Open groups after a sequence of start/stop markers; -1 once a stop had no
\* open group to close or a marker is neither start nor stop.
RECURSIVE Depth(_, _)
Depth(ms, d) ==
    IF d < 0 \/ ms = <<>> THEN d
    ELSE IF Head(ms).type = "start" THEN Depth(Tail(ms), d + 1)
    ELSE IF Head(ms).type = "stop" THEN Depth(Tail(ms), d - 1)
    ELSE -1

Balanced == Depth(Markers, 0) = 0

\* The staff counts of the score-parts read among the first k part-list children.
RECURSIVE StavesOf(_, _)
StavesOf(cs, k) == IF k = 0 THEN 0 ELSE StavesOf(cs, k - 1) + cs[k].nb

StaffDefs == {id \in 1..Len(heap) : heap[id].cls = "STAFFDEF"}

\* The @n of the children of an object, in order.
KidNumbers(id) == [k \in 1..Len(heap[id].kids) |-> heap[heap[id].kids[k]].n]

\* C7: the first staff number of each part is 1 + the staff counts of the parts
\* read before it, for its StaffDefs and for the Staff containers of each of its
\* measures, and no two StaffDefs share a number (in every conversion that made
\* no undefined access to the staff-group stack, C9).
C7_StaffNumbering ==
    ub \/
    /\ pc \in {"part", "measure"} => staffOffset = StavesOf(plist, Len(plist) - 1)
    /\ pc = "partlist" => staffOffset = StavesOf(plist, Len(plist))
    /\ pc = "measure" =>
          KidNumbers(measure) = [k \in 1..part.nbStaves |-> staffOffset + k]
    /\ \A a, b \in StaffDefs : heap[a].n = heap[b].n => a = b

\* C8 as stated: balanced part-group markers leave the staff-group stack empty.
C8_StackEmptyWhenBalanced ==
    (PartListScanned /\ Balanced) => m_staffGrpStack = <<>>

\* C8, amended: after a part-list with balanced part-group markers the
\* staff-group stack holds exactly the root StaffGrp that ReadMusicXml pushed
\* before the scan, every group opened by a marker having been popped.
C8_OnlyRootWhenBalanced ==
    (PartListScanned /\ Balanced) => m_staffGrpStack = <<m_doc.scoreDef[1]>>

C8_Witness ==
    /\ PartListScanned
    /\ Balanced
    /\ Len(Markers) >= 2
    /\ \E k \in 1..Len(plist) : plist[k].type = "read"

\* C9: whatever part-group markers and score-parts the part-list holds, the
\* conversion never pops, nor reads the top of, the empty staff-group stack (and
\* so never stops before its end).
C9_NoEmptyStackAccess == ~ub /\ pc # "crashed"

\* C10: when load_file fails ImportFile returns false and has created nothing:
\* no score, section, measure, staff definition or annotation, and
\* ConvertToPageBasedDoc was not called.
C10_FailedImportCreatesNothing ==
    loaded = <<FALSE>> =>
        /\ pc = "done"
        /\ ret = <<FALSE>>
        /\ heap = <<>>
        /\ section = 0
        /\ m_doc.score = 0
        /\ m_doc.scoreDef = <<>>
        /\ m_doc.paged = 0
        /\ m_controlElements = <<>>

C10_Witness == loaded = <<FALSE>> /\ pc = "done" /\ m_doc.type = "Raw"

\* C12: ImportFile returns false if and only if load_file failed; a document
\* that was parsed is converted to the end, whatever its part-list holds: the
\* conversion makes no undefined access, does not stop before its end and
\* returns true.
C12_FailureIffUnparsable ==
    /\ (ret = <<FALSE>>) <=> (loaded = <<FALSE>>)
    /\ loaded = <<TRUE>> =>
          /\ ~ub
          /\ pc # "crashed"
          /\ pc = "done" => ret = <<TRUE>>

\* C16: the step that reads a score-part whose part has no attributes element
\* in its first measure logs one warning and changes nothing else: no StaffDef,
\* StaffGrp, Measure, Staff or control element is created, the staff-group
\* stack and staffOffset stay as they are, and the scan goes on with the next
\* child of the part-list without reading the measures of the part.
C16_PartWithoutAttributesSkipped ==
    [][(Len(plist') = Len(plist) + 1 /\ Last(plist').type = "skipped") =>
          /\ nWarn' = nWarn + 1
          /\ heap' = heap /\ m_doc' = m_doc /\ section' = section
          /\ m_staffGrpStack' = m_staffGrpStack
          /\ staffOffset' = staffOffset
          /\ m_octDis' = m_octDis /\ m_ppq' = m_ppq
          /\ m_controlElements' = m_controlElements
          /\ read' = read /\ part' = part /\ measure' = measure
          /\ pc' = "partlist"]_vars

C16_Witness ==
    /\ pc = "done" /\ ret = <<TRUE>> /\ ~ub
    /\ \E k \in 1..Len(plist) :
          /\ plist[k].type = "skipped"
          /\ \E j \in (k + 1)..Len(plist) : plist[j].type = "read"
    /\ \E d \in StaffDefs : heap[d].n = 1
    /\ nWarn = 1

\* The measures read to their end: their positions in the history.
EndedMarks == {k \in 1..Len(read) : read[k].kind = "measure" /\ read[k].m # measure}

\* The Staff objects of the measures with index i among the first k entries of
\* the history, in the order read.
RECURSIVE StavesAt(_, _)
StavesAt(i, k) ==
    IF k = 0 THEN <<>>
    ELSE StavesAt(i, k - 1) \o
         (IF k \in EndedMarks /\ read[k].i = i
          THEN [j \in 1..(read[k].top - read[k].m) |-> read[k].m + j] ELSE <<>>)

\* The first measure read with index i.
FirstAt(i) ==
    read[CHOOSE k \in EndedMarks :
            read[k].i = i /\ \A j \in EndedMarks : read[j].i = i => k <= j].m

\* C18: of the measures read to their end, the first one with index i is the
\* i-th Measure of the section, and its children are the staves of all of them
\* that have index i, in the order read; the later ones are not in the section
\* and have no staves left.
C18_MeasureMerging ==
    section # 0 =>
        LET kids == heap[section].kids
        IN /\ Len(kids) = Cardinality({read[k].i : k \in EndedMarks})
           /\ \A i \in 0..(Len(kids) - 1) :
                 /\ \E k \in EndedMarks : read[k].i = i
                 /\ kids[i + 1] = FirstAt(i)
                 /\ heap[kids[i + 1]].kids = StavesAt(i, Len(read))
           /\ \A k \in EndedMarks :
                 read[k].m # FirstAt(read[k].i) =>
                     /\ heap[read[k].m].kids = <<>>
                     /\ Position(kids, read[k].m) = 0

C18_Witness ==
    /\ pc = "done" /\ ret = <<TRUE>>
    /\ Len(heap[section].kids) = 2
    /\ \E a, b \in EndedMarks : a < b /\ read[a].i = 0 /\ read[b].i = 0
                                      /\ read[b].top - read[b].m = 2
    /\ Cardinality({k \in EndedMarks : read[k].i = 1}) = 1
    /\ Len(heap[heap[section].kids[1]].kids) = 3
    /\ Len(heap[heap[section].kids[2]].kids) = 2

\* ------------------------------------------------- tie specification
\* A part of one staff-count declaration and n measures.
PartOf(staves, n) ==
    [hasAttr |-> TRUE, lead |-> <<[staves |-> staves, divisions |-> <<Ppq>>]>>,
     nMeasures |-> n]

\* A quarter note C4 in the default staff and voice.
Quarter == [DefNote EXCEPT !.duration = Ppq]

\* Notes for ties: C4 plain, with a tie start, with stop and start; D4 and a
\* C4 of voice 2 with a tie start; an unpitched note with a tie start.
TieNotes ==
    {Quarter,
     [Quarter EXCEPT !.tiedStart = TRUE],
     [Quarter EXCEPT !.tiedStart = TRUE, !.tiedStop = TRUE],
     [Quarter EXCEPT !.step = "D", !.tiedStart = TRUE],
     [Quarter EXCEPT !.voice = <<2>>, !.tiedStart = TRUE],
     [Quarter EXCEPT !.pitch = FALSE, !.tiedStart = TRUE]}

\* One part of one staff whose measures hold notes of TieNotes.
NextTies ==
    \/ \E parsed \in BOOLEAN : ImportFile(parsed)
    \/ plist = <<>> /\ \E n \in 1..MaxMeasures : ScorePart(PartOf(<<>>, n), FALSE)
    \/ \E nn \in TieNotes \cup {NoNote} : ReadMusicXmlMeasure(part.i + 1, nn)
    \/ \E nn \in TieNotes \cup {NoNote} : ReadMusicXmlNote(nn, Defined)
    \/ EndMeasure
    \/ PartListEnd
    \/ AttachControlElement
    \/ ConvertToPageBasedDoc

SpecTies == Init /\ [][NextTies]_vars

\* ------------------------------------------------------------ tie claims
\* The note elements read so far that made a Note, in document order.
Notes == SelectSeq(read, LAMBDA r : r.kind = "note" /\ r.note # 0)

\* What CloseTie compares: staff and layer number, pitch name and octave.
TieKey(r) == <<r.staffN, r.layerN, heap[r.note].pname, heap[r.note].oct>>

\* The Tie annotations that start at a Note.
TiesFrom(note) ==
    {t \in 1..Len(heap) : heap[t].cls = "TIE" /\ heap[t].startid = Ref(note)}

TiePending(t) == \E k \in 1..Len(m_tieStack) : m_tieStack[k].tie = t

\* N1 = Notes[i] is a pitched note with a tie start, N2 = Notes[j] the next
\* note after it with N1's staff, voice, pitch name and octave, pitched too.
TiePair(i, j) ==
    /\ i < j
    /\ Notes[i].e.pitch /\ Notes[i].e.tiedStart
    /\ Notes[j].e.pitch
    /\ TieKey(Notes[i]) = TieKey(Notes[j])
    /\ \A k \in (i + 1)..(j - 1) : TieKey(Notes[k]) # TieKey(Notes[i])

\* C1: once N2 is read there is exactly one Tie for the pair, from "#" + N1 to
\* "#" + N2, and it is no longer in the pending-tie list.
C1_TieRoundTrip ==
    \A i, j \in 1..Len(Notes) :
        TiePair(i, j) =>
            \E t \in TiesFrom(Notes[i].note) :
                /\ TiesFrom(Notes[i].note) = {t}
                /\ heap[t].startid = Ref(Notes[i].note)
                /\ heap[t].endid = Ref(Notes[j].note)
                /\ ~TiePending(t)

\* A tie closed in the measure after the one it started in, with another
\* pending tie left open.
C1_Witness ==
    \E i, j \in 1..Len(Notes) :
        /\ TiePair(i, j)
        /\ Notes[i].m # Notes[j].m
        /\ m_tieStack # <<>>


\* ----------------------------------------------- chord specification
\* Notes for chords: C4; E4 and G4 with the chord marker; E4 with the chord
\* marker and a beam begin; C4 with a beam begin and with a beam end; a dotted
\* half note C4.
ChordNotes ==
    {Quarter,
     [Quarter EXCEPT !.step = "E", !.chord = TRUE],
     [Quarter EXCEPT !.step = "G", !.chord = TRUE],
     [Quarter EXCEPT !.step = "E", !.chord = TRUE, !.beam = "begin"],
     [Quarter EXCEPT !.beam = "begin"],
     [Quarter EXCEPT !.beam = "end"],
     [Quarter EXCEPT !.type = "half", !.dots = 1, !.duration = 3 * Ppq]}

\* One part of one staff whose measures hold notes of ChordNotes.
NextChords ==
    \/ \E parsed \in BOOLEAN : ImportFile(parsed)
    \/ plist = <<>> /\ \E n \in 1..MaxMeasures : ScorePart(PartOf(<<>>, n), FALSE)
    \/ \E nn \in ChordNotes \cup {NoNote} : ReadMusicXmlMeasure(part.i + 1, nn)
    \/ \E nn \in ChordNotes \cup {NoNote} : ReadMusicXmlNote(nn, Defined)
    \/ EndMeasure
    \/ PartListEnd
    \/ ConvertToPageBasedDoc

SpecChords == Init /\ [][NextChords]_vars

\* ---------------------------------------------------------- chord claims
IsNote(r) == r.kind = "note" /\ ~r.e.rest
ChordMarked(r) == r.kind = "note" /\ r.e.chord

\* read[a..b] is a run n1..nk of consecutive pitched note elements of a
\* measure, k >= 2, n2..nk with the chord marker, n1 the first and nk the last
\* such: the note before n1 is not of the run and the note after nk has no
\* chord marker.
ChordRun(a, b) ==
    /\ a < b
    /\ \A i \in a..b : IsNote(read[i])
    /\ \A i \in (a + 1)..b : ChordMarked(read[i])
    /\ ~(ChordMarked(read[a]) /\ read[a - 1].kind = "note")
    /\ IF b < Len(read) THEN ~ChordMarked(read[b + 1])
       ELSE ~(nextNote.kind = "note" /\ nextNote.chord)

\* The Chords created while read[a..b] were read.
ChordsOf(a, b) ==
    {c \in (read[a - 1].top + 1)..read[b].top : heap[c].cls = "CHORD"}

RunNotes(a, b) == [i \in 1..(b - a + 1) |-> read[a + i - 1].note]

\* C2: a run n1..nk makes exactly one Chord; its children are the k Notes; it
\* has the duration and dots of n1 and the Notes have none; it is not on the
\* element stack after nk.
C2_ChordGrouping ==
    \A a, b \in 2..Len(read) :
        ChordRun(a, b) =>
            \E c \in ChordsOf(a, b) :
                /\ ChordsOf(a, b) = {c}
                /\ heap[c].kids = RunNotes(a, b)
                /\ heap[c].dur = ConvertTypeToDur(read[a].e.type)
                /\ heap[c].dots = read[a].e.dots
                /\ \A i \in a..b : /\ heap[read[i].note].dur = ""
                                   /\ heap[read[i].note].dots = 0
                /\ \A k \in 1..Len(m_elementStack) : m_elementStack[k] # c


\* ------------------------------------------- annotation specification
\* Directions: words only; dynamics, an octave-shift down of size 8, a pedal
\* start and a metronome together.
WordsOnly == [DefDirection EXCEPT !.words = 1]
FlushDirections ==
    {WordsOnly,
     [DefDirection EXCEPT !.dynamics = TRUE, !.shift = <<[type |-> "down", size |-> 8]>>,
                          !.pedal = <<"start">>, !.metronome = TRUE]}

\* attributes elements that switch the measure-repeat mode on and off
RepeatMarks ==
    {[DefAttributes EXCEPT !.measureRepeat = <<"start">>],
     [DefAttributes EXCEPT !.measureRepeat = <<"stop">>]}

\* C4, a chord-marked E4 and a rest
FlushNotes ==
    {Quarter, [Quarter EXCEPT !.step = "E", !.chord = TRUE], [Quarter EXCEPT !.rest = TRUE]}

\* One part of one staff whose measures hold directions, harmony elements,
\* measure-repeat marks and notes.
NextFlush ==
    \/ \E parsed \in BOOLEAN : ImportFile(parsed)
    \/ plist = <<>> /\ \E n \in 1..MaxMeasures : ScorePart(PartOf(<<>>, n), FALSE)
    \/ \E nn \in FlushNotes \cup {NoNote} : ReadMusicXmlMeasure(part.i + 1, nn)
    \/ \E nn \in FlushNotes \cup {NoNote} : ReadMusicXmlNote(nn, Defined)
    \/ \E e \in FlushDirections : ReadMusicXmlDirection(e, Defined)
    \/ ReadMusicXmlHarmony
    \/ \E e \in RepeatMarks : ReadMusicXmlAttributes(e)
    \/ EndMeasure
    \/ PartListEnd
    \/ AttachControlElement
    \/ ConvertToPageBasedDoc

SpecFlush == Init /\ [][NextFlush]_vars

\* ----------------------------------------------------- annotation claims
PendingClasses == {"DIR", "DYNAM", "HARM", "OCTAVE", "PEDAL", "TEMPO"}

PendingLists ==
    <<m_dirStack, m_dynamStack, m_harmStack, m_octaveStack, m_pedalStack, m_tempoStack>>

\* The last object made before the i-th entry of the history was read.
TopBefore(i) == IF i = 1 THEN 0 ELSE read[i - 1].top

IsNoteElement(r) == r.kind = "note"
Flushes(r) == r.kind = "note" /\ ~r.mRpt

\* The last of the first i entries that is a note element, 0 when none is.
LastNote(i) ==
    LET S == {k \in 1..i : IsNoteElement(read[k])}
    IN IF S = {} THEN 0 ELSE CHOOSE k \in S : \A j \in S : j <= k

\* The last of the first i entries that is a note element read outside
\* measure-repeat mode, 0 when none is.
LastFlush(i) ==
    LET S == {k \in 1..i : Flushes(read[k])}
    IN IF S = {} THEN 0 ELSE CHOOSE k \in S : \A j \in S : j <= k

\* The annotations direction and harmony elements made after the entry `from`
\* and before the entry i.
MadeBetween(from, i) ==
    {c \in (IF from = 0 THEN 1 ELSE read[from].top + 1)..TopBefore(i) :
        heap[c].cls \in PendingClasses}

\* The object made from a note element: its Note, else its Rest, MRest or Space.
NoteObject(r) == IF r.note # 0 THEN r.note ELSE r.id

\* C3 as stated: every note element read gives every annotation pending since
\* the note element before it the identifier of its note as start reference and
\* leaves the six pending lists empty.
C3_EveryNoteFlushes ==
    /\ \A i \in 1..Len(read) :
          IsNoteElement(read[i]) =>
              \A c \in MadeBetween(LastNote(i - 1), i) :
                  heap[c].startid = Ref(NoteObject(read[i]))
    /\ (read # <<>> /\ IsNoteElement(Last(read))) =>
          \A k \in 1..6 : PendingLists[k] = <<>>

\* C3, amended: a note element read outside measure-repeat mode gives every
\* annotation pending since the last such note the identifier of the element
\* made from it (its Note, Rest, MRest or Space, or the Chord it opens) as
\* start reference, and leaves the six pending lists empty.
C3_NoteFlushesOutsideRepeat ==
    /\ \A i \in 1..Len(read) :
          Flushes(read[i]) =>
              /\ read[i].id \in (TopBefore(i) + 1)..read[i].top
              /\ heap[read[i].id].cls \in {"NOTE", "REST", "MREST", "SPACE", "CHORD"}
              /\ heap[read[i].id].cls = "CHORD" <=>
                    \E c \in (TopBefore(i) + 1)..read[i].top : heap[c].cls = "CHORD"
              /\ \A c \in MadeBetween(LastFlush(i - 1), i) :
                    heap[c].startid = Ref(read[i].id)
    /\ (read # <<>> /\ Flushes(Last(read))) =>
          \A k \in 1..6 : PendingLists[k] = <<>>

\* A note that opened a chord flushed annotations of at least three lists, a
\* words-only direction among them.
C3_Witness ==
    \E i \in 1..Len(read) :
        /\ Flushes(read[i])
        /\ heap[read[i].id].cls = "CHORD"
        /\ \E c \in MadeBetween(LastFlush(i - 1), i) : heap[c].cls = "DIR"
        /\ \E c \in MadeBetween(LastFlush(i - 1), i) : heap[c].cls = "TEMPO"
        /\ \E c \in MadeBetween(LastFlush(i - 1), i) : heap[c].cls = "HARM"


\* ------------------------------------------- octave-shift specification
\* octave-shift directions of a two-staff part: down by 8 and stop, on the
\* default staff and on staff 2.
ShiftDown == [type |-> "down", size |-> 8]
ShiftStop == [type |-> "stop", size |-> 0]
ShiftDirections ==
    {[DefDirection EXCEPT !.shift = <<sh>>, !.staff = st] :
        sh \in {ShiftDown, ShiftStop}, st \in {<<>>, <<2>>}}

\* C4 on staff 1 and on staff 2
ShiftNotes == {[Quarter EXCEPT !.staff = <<1>>], [Quarter EXCEPT !.staff = <<2>>]}

\* One part of two staves whose measures hold octave-shift directions and notes.
NextShift ==
    \/ \E parsed \in BOOLEAN : ImportFile(parsed)
    \/ plist = <<>> /\ \E n \in 1..MaxMeasures : ScorePart(PartOf(<<2>>, n), FALSE)
    \/ \E nn \in ShiftNotes \cup {NoNote} : ReadMusicXmlMeasure(part.i + 1, nn)
    \/ \E nn \in ShiftNotes \cup {NoNote} : ReadMusicXmlNote(nn, Defined)
    \/ \E e \in ShiftDirections : ReadMusicXmlDirection(e, Defined)
    \/ EndMeasure
    \/ PartListEnd
    \/ AttachControlElement
    \/ ConvertToPageBasedDoc

SpecShift == Init /\ [][NextShift]_vars

\* --------------------------------------------------- octave-shift claims
\* The staff an octave-shift direction names (1 without staff child).
ShiftStaff(r) == IF r.e.staff = <<>> THEN 1 ELSE r.e.staff[1]

IsShift(r, type, st) ==
    r.kind = "direction" /\ r.e.shift # <<>> /\ r.e.shift[1].type = type
    /\ ShiftStaff(r) = st

\* read[b] is the stop that matches the start read[a]: the first octave-shift
\* stop on the staff after it.
MatchingStop(a, b, st) ==
    /\ a < b
    /\ IsShift(read[b], "stop", st)
    /\ \A k \in (a + 1)..(b - 1) : ~IsShift(read[k], "stop", st)

\* read[i] made a pitched Note on the staff.
PitchedOn(i, st) ==
    /\ read[i].kind = "note" /\ read[i].note # 0 /\ read[i].staffN = st
    /\ read[i].e.pitch /\ read[i].e.octave # <<>>

\* The Octave the direction read[a] made.
OctaveOf(a) ==
    CHOOSE o \in (TopBefore(a) + 1)..read[a].top : heap[o].cls = "OCTAVE"

\* C4: between an octave-shift down by 8 on a staff and its matching stop the
\* pitched notes of the staff are written one octave below their literal
\* octave, which is kept as the sounding octave; the stop ends the Octave at
\* the last note read before it; the notes of the staff after the stop, up to
\* the next start, are not shifted.
C4_OctaveShiftSpan ==
    \A a \in 1..Len(read), st \in 1..MaxStaves :
        (IsShift(read[a], "down", st) /\ read[a].e.shift[1].size = 8) =>
            /\ \A i \in (a + 1)..Len(read) :
                  (PitchedOn(i, st)
                      /\ \A b \in (a + 1)..(i - 1) : ~IsShift(read[b], "stop", st)) =>
                      /\ heap[read[i].note].oct = <<read[i].e.octave[1] - 1>>
                      /\ heap[read[i].note].octGes = read[i].e.octave
            /\ \A b \in (a + 1)..Len(read) :
                  MatchingStop(a, b, st) =>
                      /\ LET n == LastNote(b - 1)
                         IN n # 0 => heap[OctaveOf(a)].endid = Ref(NoteObject(read[n]))
                      /\ \A i \in (b + 1)..Len(read) :
                            (PitchedOn(i, st)
                                /\ \A k \in (b + 1)..(i - 1) :
                                      ~IsShift(read[k], "down", st)) =>
                                /\ heap[read[i].note].oct = read[i].e.octave
                                /\ heap[read[i].note].octGes = NoOct


\* ------------------------------------------- measure time specification
\* Notes of voice 1 and 2: quarter notes, a quarter note that begins a beam, a
\* whole note.
TimeNotes ==
    {Quarter,
     [Quarter EXCEPT !.voice = <<2>>],
     [Quarter EXCEPT !.beam = "begin"],
     [Quarter EXCEPT !.type = "whole", !.duration = 4 * Ppq]}

\* forward elements of one quarter note, without voice and in voice 2
Forwards == {[DefForward EXCEPT !.duration = Ppq, !.voice = v] : v \in {<<>>, <<2>>}}

\* backup elements of a quarter and of a whole note
Backups == {[DefBackup EXCEPT !.duration = d] : d \in {Ppq, 4 * Ppq}}

\* One part of one staff whose measures hold notes, forward and backup elements.
NextTime ==
    \/ \E parsed \in BOOLEAN : ImportFile(parsed)
    \/ plist = <<>> /\ \E n \in 1..MaxMeasures : ScorePart(PartOf(<<>>, n), FALSE)
    \/ \E nn \in TimeNotes \cup {NoNote} : ReadMusicXmlMeasure(part.i + 1, nn)
    \/ \E nn \in TimeNotes \cup {NoNote} : ReadMusicXmlNote(nn, Defined)
    \/ \E e \in Forwards : ReadMusicXmlForward(e)
    \/ \E e \in Backups : ReadMusicXmlBackup(e)
    \/ EndMeasure
    \/ PartListEnd
    \/ ConvertToPageBasedDoc

SpecTime == Init /\ [][NextTime]_vars

\* --------------------------------------------------- measure time claims
\* read[i] is a forward of one quarter note (m_ppq divisions) and read[j] the
\* note element that follows it, of the same voice and read into the same layer.
ForwardBeforeNote(i, j) ==
    /\ i < j
    /\ read[i].kind = "forward" /\ read[i].e.duration = m_ppq
    /\ read[j].kind = "note" /\ read[j].id # 0 /\ read[j].m = read[i].m
    /\ \A k \in (i + 1)..(j - 1) : read[k].kind # "note"
    /\ read[i].e.voice = read[j].e.voice
    /\ read[i].layer = read[j].layer

\* The Spaces made while read[i] was read.
SpacesOf(i) == {x \in (TopBefore(i) + 1)..read[i].top : heap[x].cls = "SPACE"}

\* C5: a forward of one quarter note followed by a note of the same voice puts
\* exactly one Space, of duration 4, into the layer of that voice (directly or
\* in a container of the layer), before the note.
C5_ForwardFiller ==
    \A i, j \in 1..Len(read) :
        ForwardBeforeNote(i, j) =>
            \E x \in SpacesOf(i) :
                /\ SpacesOf(i) = {x}
                /\ heap[x].dur = "4"
                /\ LET inLayer == Flatten(heap, heap[read[i].layer].kids)
                   IN /\ Position(inLayer, x) # 0
                      /\ Position(inLayer, x) < Position(inLayer, read[j].id)

\* The length of a duration in 256th notes.
Length256(dur) ==
    CASE dur = "1" -> 256 [] dur = "2" -> 128 [] dur = "4" -> 64 [] dur = "8" -> 32
      [] dur = "16" -> 16 [] dur = "32" -> 8 [] dur = "64" -> 4 [] dur = "128" -> 2
      [] dur = "256" -> 1 [] dur = "breve" -> 512 [] dur = "long" -> 1024
      [] dur = "maxima" -> 2048 [] OTHER -> 0

Dotted(len, dots) == IF dots = 0 THEN len ELSE IF dots = 1 THEN (3 * len) \div 2
                     ELSE (7 * len) \div 4

\* The length of layer elements, in 256th notes times ppq: the duration of a
\* Note, Rest, Space or Chord with its dots, the whole measure (total divisions,
\* a quarter note being ppq of them) for an MRest, the sum of the children of
\* any other container.
RECURSIVE LengthOf(_, _, _, _)
LengthOf(h, ids, ppq, total) ==
    IF ids = <<>> THEN 0
    ELSE LET o == h[Head(ids)]
         IN (IF o.cls \in {"NOTE", "REST", "SPACE", "CHORD"}
             THEN Dotted(Length256(o.dur), o.dots) * ppq
             ELSE IF o.cls = "MREST" THEN total * 64
             ELSE LengthOf(h, o.kids, ppq, total))
            + LengthOf(h, Tail(ids), ppq, total)

\* The total duration the children of the measure m declare: the furthest
\* position of the duration cursor, in divisions.
RECURSIVE TotalOf(_, _)
TotalOf(m, i) ==
    IF i = 0 THEN 0
    ELSE LET t == TotalOf(m, i - 1)
         IN IF read[i].kind # "measure" /\ read[i].m = m /\ read[i].cursor > t
            THEN read[i].cursor ELSE t

\* The measures read to their end.
MeasuresRead ==
    {read[i].m : i \in {k \in 1..Len(read) : read[k].kind = "measure"}}
    \ (IF pc = "measure" THEN {measure} ELSE {})

LayersOf(m) == {l \in 1..Len(heap) : /\ heap[l].cls = "LAYER"
                                      /\ \E s \in 1..Len(heap[m].kids) :
                                            Position(heap[heap[m].kids[s]].kids, l) # 0}

\* The layer holds notes, rests and fillers only (no whole-measure rest).
Measured(l) ==
    \A k \in 1..Len(Flatten(heap, heap[l].kids)) :
        heap[Flatten(heap, heap[l].kids)[k]].cls # "MREST"

\* C6: in every measure read to its end the durations of the notes, rests and
\* fillers of each layer add up to the measure's total duration (a quarter note
\* being m_ppq divisions, 64 256th notes).
C6_LayerDurationSum ==
    \A m \in MeasuresRead :
        \A l \in LayersOf(m) :
            Measured(l) =>
                LengthOf(heap, heap[l].kids, m_ppq, TotalOf(m, Len(read)))
                    = TotalOf(m, Len(read)) * 64

\* ------------------------------------------- string import specification
\* ImportString over every content: parsed or not, with or without a first
\* child, in builds with and without assert; the part-lists are those of the
\* part-list specification.
NextString ==
    \/ \E parsed, root, asserts \in BOOLEAN : ImportString(parsed, root, asserts)
    \/ \E type \in {"start", "stop", ""}, sym \in {"bracket", ""}, crash \in BOOLEAN :
          PartGroup(type, sym, crash)
    \/ OtherPartListChild
    \/ \E p \in PartInputs, crash \in BOOLEAN : ScorePart(p, crash)
    \/ ReadMusicXmlMeasure(part.i + 1, NoNote)
    \/ EndMeasure
    \/ PartListEnd
    \/ ConvertToPageBasedDoc

SpecString == Init /\ [][NextString]_vars

\* ----------------------------------------------------- string import claims
\* C11: when the content cannot be parsed ImportString returns false, has not
\* run the conversion and has left the destination score as it was: no score,
\* section or staff group, and ConvertToPageBasedDoc was not called.
C11_FailedStringImportReturnsFalse ==
    (loaded # <<>> /\ ~loaded[1]) =>
        /\ ret = <<FALSE>>
        /\ pc = "done"
        /\ m_doc.score = 0 /\ m_doc.scoreDef = <<>> /\ m_doc.paged = 0
        /\ section = 0
        /\ heap = <<>>

\* ------------------------------------------- final pass specification
\* The numbers a measure element may carry.
MeasureNumbers == 1..MaxMeasures

\* Up to MaxParts parts of one staff whose measures, numbered freely, hold
\* harmony elements; the final pass attaches the control elements made from
\* them.
NextAttach ==
    \/ \E parsed \in BOOLEAN : ImportFile(parsed)
    \/ \E n \in 1..MaxMeasures : ScorePart(PartOf(<<>>, n), FALSE)
    \/ \E num \in MeasureNumbers : ReadMusicXmlMeasure(num, NoNote)
    \/ ReadMusicXmlHarmony
    \/ EndMeasure
    \/ PartListEnd
    \/ AttachControlElement
    \/ ConvertToPageBasedDoc

SpecAttach == Init /\ [][NextAttach]_vars

\* ----------------------------------------------------- final pass claims
Measures == {m \in 1..Len(heap) : heap[m].cls = "MEASURE"}

\* The Measures of the section.
SectionMeasures == {m \in Measures : Position(heap[section].kids, m) # 0}

\* The Measures the object is a child of.
HoldersOf(id) == {m \in Measures : Position(heap[m].kids, id) # 0}

\* The Measures of the section with the number.
Numbered(num) == {m \in SectionMeasures : heap[m].n = num}

\* The k-th control element is in the Measure of its number, or in none when
\* the section has no Measure of that number.
Settled(k) ==
    LET e == m_controlElements[k]
    IN IF Numbered(e[1]) = {} THEN HoldersOf(e[2]) = {}
       ELSE \E m \in Numbered(e[1]) : HoldersOf(e[2]) = {m}

Dropped(k) == Numbered(m_controlElements[k][1]) = {}

\* The Measures read so far, each in the section or with its staves handed
\* over to the Measure of the section at its index.
MeasuresAdded ==
    \A i \in 1..Len(read) :
        read[i].kind = "measure" =>
            read[i].m \in SectionMeasures \/ heap[read[i].m].kids = <<>>

C17_FinalReattachment ==
    /\ \A k \in 1..Len(m_controlElements) :
          IF pc \in {"ctrl", "done"} /\ k < ci THEN Settled(k)
          ELSE HoldersOf(m_controlElements[k][2]) = {}
    /\ pc \in {"ctrl", "done"} =>
          nWarn = Cardinality({k \in 1..(ci - 1) : Dropped(k)})
    /\ \A a, b \in 1..Len(m_controlElements) :
          a < b => m_controlElements[a][2] < m_controlElements[b][2]
    /\ \A m \in Measures : \A a, b \in 1..Len(heap[m].kids) :
          (a < b /\ heap[heap[m].kids[a]].cls \notin {"STAFF"}
                 /\ heap[heap[m].kids[b]].cls \notin {"STAFF"}) =>
              heap[m].kids[a] < heap[m].kids[b]

C17_Witness ==
    /\ pc = "done"
    /\ \E k \in 1..Len(m_controlElements) : Dropped(k)
    /\ \E m \in SectionMeasures :
          /\ Cardinality({k \in 1..Len(m_controlElements) :
                             HoldersOf(m_controlElements[k][2]) = {m}}) >= 2

\* ------------------------------------------- lookup table specification
\* The vocabulary of each table.
AccidentalNames == {"sharp", "natural", "flat", "double-sharp", "sharp-sharp", "flat-flat",
                    "natural-sharp", "natural-flat", "quarter-flat", "quarter-sharp",
                    "three-quarters-flat", "three-quarters-sharp"}
AlterValues == -4..4
StyleNames == {"dashed", "dotted", "light-light", "regular", "light-heavy", "none",
               "heavy-light"}
WordNames == {"yes", "no"}
OrientationNames == {"over", "under"}
FermataNames == {"normal", "angled", "square"}
PedalNames == {"start", "stop"}
TupletNumberNames == {"actual", "both"}

\* Texts that are in no table: the empty text, a word, a word in another case.
Unknown == {"", "bogus", "Yes"}

Vocabulary(table) ==
    CASE table = "accidental" -> AccidentalNames
      [] table = "alter" -> AlterValues
      [] table = "bar-style" -> StyleNames
      [] table = "word" -> WordNames
      [] table = "type" -> TypeNames
      [] table = "step" -> StepNames
      [] table = "orientation" -> OrientationNames
      [] table = "fermata" -> FermataNames
      [] table = "pedal" -> PedalNames
      [] table = "show-number" -> TupletNumberNames

\* The tables whose last statement before `return NONE` is a LogWarning.
WarningTables == {"accidental", "alter", "bar-style", "type", "step", "pedal"}

InitTables ==
    /\ Init!2 /\ Init!3 /\ Init!4 /\ Init!5 /\ Init!6 /\ Init!7 /\ Init!8 /\ Init!9
    /\ Init!10 /\ Init!11 /\ Init!12 /\ Init!13 /\ Init!14 /\ Init!15 /\ Init!16
    /\ Init!17 /\ Init!18 /\ Init!19 /\ Init!20 /\ Init!21 /\ Init!22 /\ Init!23
    /\ Init!24 /\ Init!25 /\ Init!26 /\ Init!27 /\ Init!28 /\ Init!29 /\ Init!30
    /\ Init!31 /\ Init!32 /\ Init!33 /\ Init!34 /\ Init!35
    /\ pc = "tables"

\* One call of a table: the call, its result and its warnings are recorded.
Converted(table, value, repeat, r) ==
    /\ pc = "tables"
    /\ Len(read) < MaxCalls
    /\ read' = Append(read, [kind |-> "convert", table |-> table, value |-> value,
                             repeat |-> repeat, result |-> r.val, warned |-> r.warn])
    /\ nWarn' = nWarn + r.warn
    /\ UNCHANGED <<pc, loaded, ret, ub, docVars, grpVars, part, measure, measureNum,
                   nextNote, cursorVars, spanVars, pendVars, ctlVars, finVars>>

NextTables ==
    \/ \E v \in AccidentalNames \cup Unknown :
          Converted("accidental", v, FALSE, ConvertAccidentalToAccid(v))
    \/ \E v \in -5..5 : Converted("alter", v, FALSE, ConvertAlterToAccid(v))
    \/ \E v \in StyleNames \cup Unknown, repeat \in BOOLEAN :
          Converted("bar-style", v, repeat, ConvertStyleToRend(v, repeat))
    \/ \E v \in WordNames \cup Unknown : Converted("word", v, FALSE, ConvertWordToBool(v))
    \/ \E v \in TypeNames \cup Unknown : Converted("type", v, FALSE, TypeToDur(v))
    \/ \E v \in StepNames \cup Unknown : Converted("step", v, FALSE, StepToPitchName(v))
    \/ \E v \in OrientationNames \cup Unknown :
          Converted("orientation", v, FALSE, ConvertOrientationToCurvedir(v))
    \/ \E v \in FermataNames \cup Unknown :
          Converted("fermata", v, FALSE, ConvertFermataShape(v))
    \/ \E v \in PedalNames \cup Unknown :
          Converted("pedal", v, FALSE, ConvertPedalTypeToDir(v))
    \/ \E v \in TupletNumberNames \cup Unknown :
          Converted("show-number", v, FALSE, ConvertTupletNumberValue(v))

SpecTables == InitTables /\ [][NextTables]_vars

\* ----------------------------------------------------- lookup table claims
\* Two calls of a table with the same input give the same result and the same
\* number of warnings.
SameEveryCall ==
    \A a, b \in 1..Len(read) :
        (read[a].table = read[b].table /\ read[a].value = read[b].value
            /\ read[a].repeat = read[b].repeat) =>
        (read[a].result = read[b].result /\ read[a].warned = read[b].warned)

\* The calls with an input outside the vocabulary of their table.
OutOfVocabulary == {a \in 1..Len(read) : read[a].value \notin Vocabulary(read[a].table)}

\* C14 as stated: the result of every table depends on the input only, and an
\* input outside its vocabulary gives NONE and exactly one warning.
C14_UnknownGivesNoneAndWarning ==
    /\ SameEveryCall
    /\ \A a \in OutOfVocabulary : read[a].result = "" /\ read[a].warned = 1
    /\ nWarn >= Cardinality(OutOfVocabulary)

\* C14, amended: the result of every table depends on the input only; an input
\* outside its vocabulary gives NONE in every table, with exactly one warning
\* in the tables for accidental, alteration, bar-style, duration type, pitch
\* step and pedal type, and with no warning in the tables for yes/no words,
\* curve orientation, fermata shape and tuplet number format.
C14_UnknownGivesNone ==
    /\ SameEveryCall
    /\ \A a \in OutOfVocabulary :
          /\ read[a].result = ""
          /\ read[a].warned = IF read[a].table \in WarningTables THEN 1 ELSE 0
    /\ nWarn >= Cardinality({a \in OutOfVocabulary : read[a].table \in WarningTables})

C14_Witness ==
    /\ Len(read) = 2
    /\ read[1].table = "pedal" /\ read[1].value = "bogus" /\ read[1].warned = 1
    /\ read[2].table = "fermata" /\ read[2].value = "bogus" /\ read[2].result = ""
    /\ nWarn = 1

\* ------------------------------------------- staff and voice specification
\* Notes and forward elements whose staff and voice children are absent, in
\* range, below 1 or, for the staff, above the staves of the part; one note
\* begins a beam.
ClampNotes ==
    {Quarter,
     [Quarter EXCEPT !.beam = "begin"],
     [Quarter EXCEPT !.staff = <<MaxStaves + 1>>, !.voice = <<2>>],
     [Quarter EXCEPT !.staff = <<0>>, !.voice = <<0>>]}

ClampForwards ==
    {[DefForward EXCEPT !.duration = Ppq, !.staff = <<MaxStaves + 1>>, !.voice = <<0>>],
     [DefForward EXCEPT !.duration = Ppq, !.staff = <<2>>, !.voice = <<2>>]}

NextClamp ==
    \/ \E parsed \in BOOLEAN : ImportFile(parsed)
    \/ plist = <<>> /\ \E k \in 1..MaxStaves, n \in 1..MaxMeasures :
          ScorePart(PartOf(<<k>>, n), FALSE)
    \/ \E nn \in ClampNotes \cup {NoNote} : ReadMusicXmlMeasure(part.i + 1, nn)
    \/ \E nn \in ClampNotes \cup {NoNote} : ReadMusicXmlNote(nn, Defined)
    \/ \E e \in ClampForwards : ReadMusicXmlForward(e)
    \/ EndMeasure
    \/ PartListEnd
    \/ ConvertToPageBasedDoc

SpecClamp == Init /\ [][NextClamp]_vars

\* ----------------------------------------------------- staff and voice claims
\* The staff and voice numbers an element declares, 1 when it declares none.
DeclaredStaff(e) == IF e.staff = <<>> THEN 1 ELSE e.staff[1]
DeclaredVoice(e) == IF e.voice = <<>> THEN 1 ELSE e.voice[1]

\* The Staff children of a Measure.
StavesIn(m) == SelectSeq(heap[m].kids, LAMBDA c : heap[c].cls = "STAFF")

BadStaff(e, m) == DeclaredStaff(e) < 1 \/ DeclaredStaff(e) > Len(StavesIn(m))
BadVoice(e) == DeclaredVoice(e) < 1

\* The Layer of the element's staff and voice numbers in the Measure m, staff 1
\* for a staff number outside the measure and voice 1 for a voice below 1; 0
\* when the staff has no such Layer.
LayerFor(e, m) ==
    LET st == StavesIn(m)[IF BadStaff(e, m) THEN 1 ELSE DeclaredStaff(e)]
    IN FirstKid(heap, heap[st].kids, "LAYER", IF BadVoice(e) THEN 1 ELSE DeclaredVoice(e))

LayerClasses == {"NOTE", "REST", "SPACE", "MREST", "MRPT", "CHORD", "BEAM", "TUPLET",
                 "BTREM", "FTREM", "CLEF"}

\* The layer elements made while read[i] was read.
LayerElementsOf(i) ==
    {x \in (TopBefore(i) + 1)..read[i].top : heap[x].cls \in LayerClasses}

\* x is in the Layer l, directly or in a container.
InLayer(x, l) == l # 0 /\ Position(Flatten(heap, heap[l].kids), x) # 0

\* C15: a note, or a forward with a voice, of the measure being read whose
\* staff number is outside the measure or whose voice number is below 1 is
\* resolved to staff 1 (with a warning), respectively voice 1, and every layer
\* element made for it is in the Layer of that staff and voice.
C15_ClampedStaffAndVoice ==
    pc = "measure" =>
        \A i \in 1..Len(read) :
            (/\ read[i].kind \in {"note", "forward"}
             /\ read[i].m = measure
             /\ read[i].kind = "forward" => read[i].e.voice # <<>>
             /\ BadStaff(read[i].e, measure) \/ BadVoice(read[i].e)) =>
                /\ read[i].layer = LayerFor(read[i].e, measure)
                /\ BadStaff(read[i].e, measure) => read[i].warns >= 1
                /\ \A x \in LayerElementsOf(i) : InLayer(x, LayerFor(read[i].e, measure))

\* ------------------------------------------- nesting specification
\* Notes that begin and end a beam, start and stop a tuplet, or begin a beam
\* and start a tuplet at once.
NestNotes ==
    {[Quarter EXCEPT !.beam = "begin"],
     [Quarter EXCEPT !.tupletStart = TRUE],
     [Quarter EXCEPT !.beam = "begin", !.tupletStart = TRUE],
     [Quarter EXCEPT !.beam = "end"],
     [Quarter EXCEPT !.tupletStop = TRUE]}

NextNest ==
    \/ \E parsed \in BOOLEAN : ImportFile(parsed)
    \/ plist = <<>> /\ \E n \in 1..MaxMeasures : ScorePart(PartOf(<<>>, n), FALSE)
    \/ \E nn \in NestNotes \cup {NoNote} : ReadMusicXmlMeasure(part.i + 1, nn)
    \/ \E nn \in NestNotes \cup {NoNote} : ReadMusicXmlNote(nn, Defined)
    \/ EndMeasure
    \/ PartListEnd
    \/ ConvertToPageBasedDoc

SpecNest == Init /\ [][NextNest]_vars

\* ----------------------------------------------------- nesting claims
ContainerClasses == {"BEAM", "TUPLET", "BTREM", "FTREM", "CHORD"}

\* The positions of the entries of the class in the element stack.
StackedAt(cls) == {k \in 1..Len(m_elementStack) : heap[m_elementStack[k]].cls = cls}

\* The stack without its k-th entry.
Without(stack, k) == SubSeq(stack, 1, k - 1) \o SubSeq(stack, k + 1, Len(stack))

\* C19: for every class, RemoveLastFromStack gives the element stack without
\* its topmost entry of the class, every other entry, those above it included,
\* staying in place and in order; it gives the stack as it is when the stack
\* has no entry of the class.
C19_RemoveLastFromStack ==
    \A cls \in ContainerClasses :
        RemoveLastFromStack(heap, m_elementStack, cls) =
            IF StackedAt(cls) = {} THEN m_elementStack
            ELSE Without(m_elementStack,
                         CHOOSE k \in StackedAt(cls) : \A j \in StackedAt(cls) : j <= k)

\* A beam end was read while a Tuplet was open above the Beam: the Tuplet is
\* still on the stack, the Beam is not.
C19_Witness ==
    /\ pc = "measure"
    /\ Len(Here(read)) >= 2
    /\ Last(read).kind = "note" /\ Last(read).e.beam = "end"
    /\ Len(m_elementStack) = 1
    /\ heap[m_elementStack[1]].cls = "TUPLET"
    /\ \E b \in 1..Len(heap) :
          heap[b].cls = "BEAM" /\ Position(heap[b].kids, m_elementStack[1]) # 0

\* ----------------------------------------------------- layer content claims
\* C20: the layer elements made for a note of the measure being read, and for a
\* forward that names its voice, are in the Layer of the staff and voice
\* numbers of that element, directly or in a container of that Layer, also
\* when a container opened in another voice is on the element stack.
C20_ElementsInTheirOwnLayer ==
    pc = "measure" =>
        \A i \in 1..Len(read) :
            (/\ read[i].kind \in {"note", "forward"}
             /\ read[i].m = measure
             /\ read[i].kind = "forward" => read[i].e.voice # <<>>) =>
                \A x \in LayerElementsOf(i) : InLayer(x, LayerFor(read[i].e, measure))

\* ------------------------------------------- duration cursor specification
\* Notes for the measure time: C4, E4 with the chord marker, C4 that begins a
\* beam (and leaves it on the element stack).
CursorNotes ==
    {Quarter,
     [Quarter EXCEPT !.step = "E", !.chord = TRUE],
     [Quarter EXCEPT !.beam = "begin"]}

\* backup elements of a quarter and of a dotted half note
CursorBackups == {[DefBackup EXCEPT !.duration = d] : d \in {Ppq, 3 * Ppq}}

\* One part of one staff whose measures hold notes, forward and backup elements.
NextCursor ==
    \/ \E parsed \in BOOLEAN : ImportFile(parsed)
    \/ plist = <<>> /\ \E n \in 1..MaxMeasures : ScorePart(PartOf(<<>>, n), FALSE)
    \/ \E nn \in CursorNotes \cup {NoNote} : ReadMusicXmlMeasure(part.i + 1, nn)
    \/ \E nn \in CursorNotes \cup {NoNote} : ReadMusicXmlNote(nn, Defined)
    \/ \E e \in Forwards : ReadMusicXmlForward(e)
    \/ \E e \in CursorBackups : ReadMusicXmlBackup(e)
    \/ EndMeasure
    \/ PartListEnd
    \/ ConvertToPageBasedDoc

SpecCursor == Init /\ [][NextCursor]_vars

\* --------------------------------------------------- duration cursor claims
\* What a child of a measure declares to move the cursor by.
Moves(r) ==
    IF r.kind = "forward" THEN r.e.duration
    ELSE IF r.kind = "backup" THEN 0 - r.e.duration
    ELSE IF r.kind = "note" /\ ~r.e.chord THEN r.e.duration
    ELSE 0

\* The sum of the moves of the children read[1..i] that belong to the measure
\* of read[i].
RECURSIVE MovesUpTo(_)
MovesUpTo(i) ==
    IF i = 0 \/ read[i].kind = "measure" THEN 0
    ELSE MovesUpTo(i - 1) + Moves(read[i])

\* C21: when a measure begins the element stack is empty and the duration
\* cursor is 0, whatever the measure before left; after each child of the
\* measure the cursor is the sum of the forward durations and of the durations
\* of the notes without chord marker, minus the backup durations, read so far
\* in that measure.
C21_MeasureTime ==
    /\ \A i \in 1..Len(read) :
           read[i].kind # "measure" => read[i].cursor = MovesUpTo(i)
    /\ pc = "measure" => m_durTotal = MovesUpTo(Len(read))
    /\ pc = "measure" /\ Here(read) = <<>> => m_elementStack = <<>> /\ m_durTotal = 0

\* The second measure begins after a first one that held a chord and ended with
\* a beam left open and the cursor away from 0.
C21_Witness ==
    /\ pc = "measure" /\ Here(read) = <<>>
    /\ Len(read) > 2
    /\ read[Len(read) - 1].kind = "note"
    /\ read[Len(read) - 1].e.beam = "begin"
    /\ read[Len(read) - 1].cursor # 0
    /\ \E i \in 1..(Len(read) - 1) : read[i].kind = "note" /\ read[i].e.chord

\* ----------------------------------------------------- voice default claims
\* read[i] is a note or forward element of the measure being read that has no
\* voice child.
NoVoice(i) ==
    /\ pc = "measure"
    /\ read[i].kind \in {"note", "forward"}
    /\ read[i].m = measure
    /\ read[i].e.voice = <<>>

\* The Staff that read[i] resolves to.
StaffOf(i) ==
    StavesIn(read[i].m)[IF BadStaff(read[i].e, read[i].m) THEN 1
                        ELSE DeclaredStaff(read[i].e)]

\* The Layers the Staff of read[i] had before read[i] was read, in their order.
LayersBefore(i) ==
    SelectSeq(heap[StaffOf(i)].kids,
              LAMBDA c : heap[c].cls = "LAYER" /\ c <= TopBefore(i))

\* The note element that follows read[i] in its measure: the next one read, or
\* the one looked ahead at; NoNote when the measure has none.
RECURSIVE NoteAfter(_)
NoteAfter(i) ==
    IF i = Len(read) THEN nextNote
    ELSE IF read[i + 1].kind = "note" THEN read[i + 1].e
    ELSE NoteAfter(i + 1)

\* The voice whose Layer the handler of read[i] works in: voice 1, and for a
\* forward without voice child the voice of the note that follows it.
DefaultVoice(i) ==
    IF read[i].kind = "forward" /\ NoteAfter(i) # NoNote
    THEN DeclaredVoice(NoteAfter(i)) ELSE 1

LayerNotes ==
    {Quarter,
     [Quarter EXCEPT !.voice = <<2>>],
     [Quarter EXCEPT !.staff = <<2>>, !.voice = <<2>>]}

\* A forward of one quarter note without voice, in the first and second staff.
LayerForwards ==
    {[DefForward EXCEPT !.duration = Ppq, !.staff = st] : st \in {<<>>, <<2>>}}

\* Clefs of the first and of the second staff.
LayerClefs ==
    {[DefAttributes EXCEPT !.clef = <<[number |-> nb, sign |-> TRUE, line |-> TRUE]>>] :
        nb \in {<<>>, <<2>>}}

\* One part of one or two staves whose measures hold notes, forwards and clefs.
NextLayers ==
    \/ \E parsed \in BOOLEAN : ImportFile(parsed)
    \/ plist = <<>> /\ \E k \in 1..MaxStaves, n \in 1..MaxMeasures :
          ScorePart(PartOf(<<k>>, n), FALSE)
    \/ \E nn \in LayerNotes \cup {NoNote} : ReadMusicXmlMeasure(part.i + 1, nn)
    \/ \E nn \in LayerNotes \cup {NoNote} : ReadMusicXmlNote(nn, Defined)
    \/ \E e \in LayerForwards : ReadMusicXmlForward(e)
    \/ \E e \in LayerClefs : ReadMusicXmlAttributes(e)
    \/ EndMeasure
    \/ PartListEnd
    \/ ConvertToPageBasedDoc

SpecLayers == Init /\ [][NextLayers]_vars

\* ------------------------------------------------------------ layer claims
\* The Layer children of the Staff st.
LayersIn(st) == SelectSeq(heap[st].kids, LAMBDA c : heap[c].cls = "LAYER")

\* read[i] resolved a Layer of a Staff.
Resolved(i) == read[i].kind # "measure" /\ read[i].layer # 0 /\ read[i].staffN # 0

\* read[i] and read[j] resolved the same staff and voice of the same measure.
SamePair(i, j) ==
    /\ i < j
    /\ Resolved(i) /\ Resolved(j)
    /\ read[i].m = read[j].m
    /\ read[i].staffN = read[j].staffN
    /\ read[i].layerN = read[j].layerN

\* C23: no Staff holds two Layers with the same number, and an element that
\* resolves the staff and voice an earlier element of the measure resolved gets
\* the same Layer, which is none made for it.
C23_LayersUnique ==
    /\ \A st \in 1..Len(heap) :
           heap[st].cls = "STAFF" =>
               \A a, b \in 1..Len(LayersIn(st)) :
                   heap[LayersIn(st)[a]].n = heap[LayersIn(st)[b]].n => a = b
    /\ \A i, j \in 1..Len(read) :
           SamePair(i, j) =>
               /\ read[j].layer = read[i].layer
               /\ read[j].layer <= read[i].top

\* A staff with the Layers of two voices, one of them resolved by a note and
\* again by a clef.
C23_Witness ==
    \E i, j \in 1..Len(read) :
        /\ SamePair(i, j)
        /\ read[i].kind = "note" /\ read[j].kind = "attributes"
        /\ \E st \in 1..Len(heap) : heap[st].cls = "STAFF" /\ Len(LayersIn(st)) = 2

\* ------------------------------------------------- filler specification
MaxGap == 9
MaxDivisions == 4
MaxFill == 4

\* The gaps FillSpace is called with: the small ones, negative and positive,
\* and two beyond the integers a float holds exactly.
Gaps ==
    ((0 - MaxGap)..MaxGap \ {0})
        \cup {2^(FloatMantissa + 1) + 8, 2^(FloatMantissa + 2)}

\* A Layer, m_ppq set by a divisions element, and one call FillSpace(layer, gap).
InitFill ==
    /\ Init!2 /\ Init!3 /\ Init!4 /\ Init!5 /\ Init!6 /\ Init!8 /\ Init!9
    /\ Init!10 /\ Init!11 /\ Init!12 /\ Init!13 /\ Init!14 /\ Init!15
    /\ Init!17 /\ Init!18 /\ Init!19 /\ Init!20 /\ Init!21 /\ Init!22 /\ Init!23
    /\ Init!24 /\ Init!25 /\ Init!26 /\ Init!27 /\ Init!28 /\ Init!29 /\ Init!30
    /\ Init!31 /\ Init!33 /\ Init!34 /\ Init!35
    /\ pc = "fill"
    /\ heap = <<Obj("LAYER")>>
    /\ m_ppq \in 1..MaxDivisions
    /\ \E gap \in Gaps : read = <<[kind |-> "FillSpace", dur |-> gap, left |-> gap]>>

\* One iteration of the loop of FillSpace; the history keeps the dur it began
\* with, the dur it left and the Space it made.
FillSpaceIteration ==
    /\ pc = "fill"
    /\ Last(read).left # 0
    /\ Len(read) <= MaxFill
    /\ LET dur == Last(read).left
           r == FillStep(Fields, 1, dur, m_ppq)
       IN /\ heap' = r.heap
          /\ nWarn' = r.nWarn
          /\ read' = Append(read, [kind |-> "space", dur |-> dur,
                                   left |-> FillQuaters(dur, m_ppq).left,
                                   id |-> Len(r.heap)])
    /\ UNCHANGED <<pc, loaded, ret, ub, m_doc, section, grpVars, part, measure, measureNum,
                   nextNote, cursorVars, spanVars, pendVars, ctlVars, finVars>>

SpecFill == InitFill /\ [][FillSpaceIteration]_vars

\* ------------------------------------------------------------ filler claims
\* The gap FillSpace was called with and the Spaces it has made so far.
Gap == read[1].dur
Fillers == [i \in 1..(Len(read) - 1) |-> read[i + 1].id]

\* The loop of FillSpace has ended.
Filled == pc = "fill" /\ Last(read).left = 0

\* C24: once FillSpace has filled a positive gap every Space it made has a
\* power-of-two duration of at most a half note, a gap of more than a half note
\* got more than one Space, and the durations of the Spaces add up to the gap (a
\* quarter note being m_ppq divisions).
C24_FillersAddUp ==
    Filled /\ Gap > 0 =>
        /\ \A i \in 1..Len(Fillers) : heap[Fillers[i]].dur \in DurationNames \ {"1"}
        /\ Gap > 2 * m_ppq => Len(Fillers) > 1
        /\ LengthOf(heap, Fillers, m_ppq, 0) = Gap * 64

Abs(x) == IF x < 0 THEN 0 - x ELSE x

\* C25: every iteration of FillSpace's loop leaves a remaining gap that is
\* smaller in absolute value than the one it began with, so that the loop ends
\* with the remaining gap 0.
C25_EveryIterationReduces ==
    pc = "fill" =>
        \A i \in 2..Len(read) : Abs(read[i].left) < Abs(read[i].dur)

\* ----------------------------------------------------- pending tie claims
\* The step reads a note element that makes a Note.
NoteStep ==
    /\ Len(read') = Len(read) + 1
    /\ Last(read').kind = "note"
    /\ Last(read').note # 0

\* What CloseTie compares for the Note of the step.
StepKey ==
    <<Last(read').staffN, Last(read').layerN,
      heap'[Last(read').note].pname, heap'[Last(read').note].oct>>

\* The pending ties that match the Note of the step, by their place in
\* m_tieStack before the step.
Matching ==
    {k \in 1..Len(m_tieStack) :
        <<m_tieStack[k].staffN, m_tieStack[k].layerN, m_tieStack[k].pname,
          m_tieStack[k].oct>> = StepKey}

Earliest(ks) == CHOOSE k \in ks : \A j \in ks : k <= j

\* m_tieStack after the step is pending, followed by the Tie the note opened when
\* it has a tie start.
PendingAfter(pending) ==
    IF Last(read').e.tiedStart
    THEN /\ Len(m_tieStack') = Len(pending) + 1
         /\ Front(m_tieStack') = pending
         /\ Last(m_tieStack').tie > Len(heap)
    ELSE m_tieStack' = pending

\* The Ties made before the step, but for the Tie t, are as they were.
OtherTiesUnchanged(t) ==
    \A x \in 1..Len(heap) : heap[x].cls = "TIE" /\ x # t => heap'[x] = heap[x]

C27_UnmatchedStopIsSilent ==
    [][NoteStep /\ Last(read').e.tiedStop /\ Matching = {} =>
          /\ PendingAfter(m_tieStack)
          /\ OtherTiesUnchanged(0)
          /\ nWarn' = nWarn]_vars

\* C27 (as stated): such a note leaves the pending list and every Tie as they
\* were and logs one warning.
C27_UnmatchedStopWarns ==
    [][NoteStep /\ Last(read').e.tiedStop /\ Matching = {} =>
          /\ PendingAfter(m_tieStack)
          /\ OtherTiesUnchanged(0)
          /\ nWarn' = nWarn + 1]_vars

\* A note with a tie stop was read while a tie was pending, and is the end of
\* no Tie.
C27_Witness ==
    \E i \in 1..Len(Notes) :
        /\ Notes[i].e.tiedStop
        /\ \A t \in 1..Len(heap) : heap[t].cls = "TIE" => heap[t].endid # Ref(Notes[i].note)
        /\ \E k \in 1..Len(m_tieStack) : m_tieStack[k].tie < Notes[i].note

\* C28: the tie that the pitched note N1 starts is closed by the next pitched
\* note N2 with N1's staff, voice, pitch name and octave, with or without a tie
\* stop; N2 logs a warning exactly when it has no tie stop; when N2 has a tie
\* start too, its own Tie is another one, opened after the first was closed.
C28_NextMatchingNoteCloses ==
    \A i, j \in 1..Len(Notes) :
        TiePair(i, j) =>
            /\ \E t \in TiesFrom(Notes[i].note) :
                   /\ heap[t].endid = Ref(Notes[j].note)
                   /\ ~TiePending(t)
            /\ Notes[j].warns = IF Notes[j].e.tiedStop THEN 0 ELSE 1
            /\ Notes[j].e.tiedStart =>
                   \E t2 \in TiesFrom(Notes[j].note) :
                       /\ TiesFrom(Notes[j].note) = {t2}
                       /\ t2 \notin TiesFrom(Notes[i].note)
                       /\ heap[t2].endid # Ref(Notes[j].note)

\* One tie closed by a note without tie stop and one by a note with stop and
\* start.
C28_Witness ==
    \E i, j, k, l \in 1..Len(Notes) :
        /\ TiePair(i, j) /\ ~Notes[j].e.tiedStop /\ ~Notes[j].e.tiedStart
        /\ TiePair(k, l) /\ Notes[l].e.tiedStop /\ Notes[l].e.tiedStart

\* C29: every pending Tie has a start and no end, every other Tie has both, and
\* no Tie ends where it starts.
C29_TieReferences ==
    \A t \in 1..Len(heap) :
        heap[t].cls = "TIE" =>
            /\ heap[t].startid # NoRef
            /\ TiePending(t) <=> heap[t].endid = NoRef
            /\ heap[t].endid # heap[t].startid

\* A pending Tie and a closed one.
C29_Witness ==
    \E t, x \in 1..Len(heap) :
        /\ heap[t].cls = "TIE" /\ TiePending(t)
        /\ heap[x].cls = "TIE" /\ ~TiePending(x) /\ heap[x].endid # NoRef

\* ------------------------------------------------- slur specification
\* Notes for slurs: C4 plain; with a slur start without number (read as 0) and
\* with number 2; with a slur stop of number 1 and of number 2; a C4 of voice 2
\* with a slur stop without number.
SlurNotes ==
    {Quarter,
     [Quarter EXCEPT !.slurs = <<[type |-> "start", number |-> 0]>>],
     [Quarter EXCEPT !.slurs = <<[type |-> "start", number |-> 2]>>],
     [Quarter EXCEPT !.slurs = <<[type |-> "stop", number |-> 1]>>],
     [Quarter EXCEPT !.slurs = <<[type |-> "stop", number |-> 2]>>],
     [Quarter EXCEPT !.voice = <<2>>, !.slurs = <<[type |-> "stop", number |-> 0]>>]}

\* One part of one staff whose measures hold notes of SlurNotes.
NextSlurs ==
    \/ \E parsed \in BOOLEAN : ImportFile(parsed)
    \/ plist = <<>> /\ \E n \in 1..MaxMeasures : ScorePart(PartOf(<<>>, n), FALSE)
    \/ \E nn \in SlurNotes \cup {NoNote} : ReadMusicXmlMeasure(part.i + 1, nn)
    \/ \E nn \in SlurNotes \cup {NoNote} : ReadMusicXmlNote(nn, Defined)
    \/ EndMeasure
    \/ PartListEnd
    \/ ConvertToPageBasedDoc

SpecSlurs == Init /\ [][NextSlurs]_vars

\* ------------------------------------------------------------ slur claims
\* The step reads a note element with one slur child of the type, whose number
\* counts as nb.
SlurStep(type, nb) ==
    /\ Len(read') = Len(read) + 1
    /\ Last(read').kind = "note"
    /\ Len(Last(read').e.slurs) = 1
    /\ Last(read').e.slurs[1].type = type
    /\ nb = IF Last(read').e.slurs[1].number < 1 THEN 1 ELSE Last(read').e.slurs[1].number

\* The pending slurs of the staff and voice of the step's element and of the
\* number nb, by their place in m_slurStack before the step.
MatchingSlurs(nb) ==
    {k \in 1..Len(m_slurStack) :
        /\ m_slurStack[k].staffN = Last(read').staffN
        /\ m_slurStack[k].layerN = Last(read').layerN
        /\ m_slurStack[k].number = nb}

\* The Slurs made before the step, but for the Slur x, are as they were.
OtherSlursUnchanged(x) ==
    \A y \in 1..Len(heap) : heap[y].cls = "SLUR" /\ y # x => heap'[y] = heap[y]

\* C30: a slur start appends a pending slur with the staff and voice of its
\* element and its number (1 for a number below 1), a new Slur that starts at
\* the element; a slur stop gives the earliest pending slur of its staff, voice
\* and number the element as end and removes it; a stop without such a pending
\* slur leaves the pending slurs and all Slurs as they were and logs one warning.
C30_SlurMatching ==
    [][\A nb \in 1..2 :
          /\ SlurStep("start", nb) =>
                /\ Len(m_slurStack') = Len(m_slurStack) + 1
                /\ Front(m_slurStack') = m_slurStack
                /\ Last(m_slurStack') =
                       [slur |-> Last(m_slurStack').slur,
                        staffN |-> Last(read').staffN, layerN |-> Last(read').layerN,
                        number |-> nb]
                /\ Last(m_slurStack').slur > Len(heap)
                /\ heap'[Last(m_slurStack').slur].cls = "SLUR"
                /\ heap'[Last(m_slurStack').slur].startid = Ref(Last(read').id)
                /\ heap'[Last(m_slurStack').slur].endid = NoRef
                /\ OtherSlursUnchanged(0)
          /\ SlurStep("stop", nb) /\ MatchingSlurs(nb) # {} =>
                LET k == Earliest(MatchingSlurs(nb))
                    x == m_slurStack[k].slur
                IN /\ heap'[x] = [heap[x] EXCEPT !.endid = Ref(Last(read').id)]
                   /\ m_slurStack' = Erase(m_slurStack, k)
                   /\ OtherSlursUnchanged(x)
          /\ SlurStep("stop", nb) /\ MatchingSlurs(nb) = {} =>
                /\ m_slurStack' = m_slurStack
                /\ OtherSlursUnchanged(0)
                /\ nWarn' = nWarn + 1]_vars

\* Two slurs of one staff, voice and number were pending when a stop closed the
\* first of them, the second still is pending, and a stop found no match.
C30_Witness ==
    \E x, y \in 1..Len(heap) :
        \E k \in 1..Len(m_slurStack) :
            /\ heap[x].cls = "SLUR" /\ heap[y].cls = "SLUR" /\ x < y
            /\ heap[x].endid # NoRef /\ heap[x].endid[2] > y
            /\ m_slurStack[k].slur = y
            /\ \E i, j \in 1..Len(read) :
                   /\ read[i].kind = "note" /\ heap[x].startid = Ref(read[i].id)
                   /\ read[j].kind = "note" /\ heap[y].startid = Ref(read[j].id)
                   /\ read[i].layerN = read[j].layerN
                   /\ read[i].e.slurs = read[j].e.slurs
            /\ nWarn > 0

\* ------------------------------------------------- hairpin specification
\* Wedges: a crescendo without number (read as 0) and with number 2, a stop
\* with number 1 and with number 2.
Wedges ==
    {[DefDirection EXCEPT !.wedge = <<[type |-> t, number |-> n]>>] :
        t \in {"crescendo", "stop"}, n \in {0, 2}}
    \cup {[DefDirection EXCEPT !.wedge = <<[type |-> "stop", number |-> 1]>>]}

\* C4 and a rest
HairpinNotes == {Quarter, [Quarter EXCEPT !.rest = TRUE]}

\* One part of one staff whose measures hold wedges and notes.
NextHairpins ==
    \/ \E parsed \in BOOLEAN : ImportFile(parsed)
    \/ plist = <<>> /\ \E n \in 1..MaxMeasures : ScorePart(PartOf(<<>>, n), FALSE)
    \/ \E nn \in HairpinNotes \cup {NoNote} : ReadMusicXmlMeasure(part.i + 1, nn)
    \/ \E nn \in HairpinNotes \cup {NoNote} : ReadMusicXmlNote(nn, Defined)
    \/ \E e \in Wedges : ReadMusicXmlDirection(e, Defined)
    \/ EndMeasure
    \/ PartListEnd
    \/ ConvertToPageBasedDoc

SpecHairpins == Init /\ [][NextHairpins]_vars

\* ------------------------------------------------------------ hairpin claims
\* The step reads a direction with a wedge stop.
WedgeStop ==
    /\ Len(read') = Len(read) + 1
    /\ Last(read').kind = "direction"
    /\ Last(read').e.wedge # <<>>
    /\ Last(read').e.wedge[1].type = "stop"

\* The pending hairpins with the number of the wedge of the step (1 for a
\* number below 1), by their place in m_hairpinStack before the step.
MatchingHairpins ==
    {k \in 1..Len(m_hairpinStack) :
        m_hairpinStack[k].dirN = IF Last(read').e.wedge[1].number < 1 THEN 1
                                 ELSE Last(read').e.wedge[1].number}

\* The elements of the notes and rests read so far, in document order.
Elements ==
    SelectSeq(read, LAMBDA r : r.kind = "note" /\ r.id # 0)

\* The notes and rests read after the object x was made.
ElementsAfter(x) == SelectSeq(Elements, LAMBDA r : r.id > x)

\* C31: a wedge stop closes the earliest pending hairpin of its number: the
\* Hairpin starts at the first note or rest read after the wedge that made it,
\* ends at the last note or rest read before the stop, has both references once
\* the stop is read, and has left the pending list.
C31_HairpinMatching ==
    [][WedgeStop /\ MatchingHairpins # {} =>
          LET k == Earliest(MatchingHairpins)
              x == m_hairpinStack[k].hairpin
          IN /\ m_hairpinStack' = Erase(m_hairpinStack, k)
             /\ heap'[x].startid # NoRef /\ heap'[x].endid # NoRef
             /\ ElementsAfter(x) # <<>>
             /\ heap'[x].startid = Ref(ElementsAfter(x)[1].id)
             /\ heap'[x].endid = Ref(Last(Elements).id)]_vars

\* The same for the hairpins with a note or rest between their wedge and the
\* stop.
HairpinOverNotes ==
    [][WedgeStop /\ MatchingHairpins # {}
          /\ ElementsAfter(m_hairpinStack[Earliest(MatchingHairpins)].hairpin) # <<>> =>
          LET k == Earliest(MatchingHairpins)
              x == m_hairpinStack[k].hairpin
          IN /\ m_hairpinStack' = Erase(m_hairpinStack, k)
             /\ heap'[x].startid = Ref(ElementsAfter(x)[1].id)
             /\ heap'[x].endid = Ref(Last(Elements).id)]_vars

\* ------------------------------------------------- octave-shift stop claims
\* The step reads an octave-shift stop on the staff st and the run goes on.
StopOn(st) ==
    /\ Len(read') = Len(read) + 1
    /\ IsShift(Last(read'), "stop", st)
    /\ pc' # "crashed"

\* The Octaves made by the octave-shift directions on the staff st that have
\* no end yet.
OpenOctaves(st) ==
    {x \in 1..Len(heap) :
        /\ heap[x].cls = "OCTAVE" /\ heap[x].endid = NoRef
        /\ \E a \in 1..Len(read) :
              /\ read[a].kind = "direction" /\ read[a].e.shift # <<>>
              /\ ShiftStaff(read[a]) = st
              /\ TopBefore(a) < x /\ x <= read[a].top}

Latest(xs) == CHOOSE x \in xs : \A y \in xs : y <= x

\* C32: an octave-shift stop on a staff sets the staff's displacement to 0 and
\* gives the end, the last element read, to the Octave opened last on that staff
\* among those without end; every other Octave stays as it was.
C32_StopEndsLatestOctave ==
    [][\A st \in 1..MaxStaves :
          StopOn(st) =>
              /\ m_octDis'[st + 1] = 0
              /\ \A x \in 1..Len(heap) :
                    heap[x].cls = "OCTAVE" =>
                        heap'[x] = IF OpenOctaves(st) # {} /\ x = Latest(OpenOctaves(st))
                                   THEN [heap[x] EXCEPT !.endid = m_ID]
                                   ELSE heap[x]]_vars

\* The same for a stop read while the staff has one Octave without end, which
\* still has the staff of its direction.
StopEndsOnlyOctave ==
    [][\A st \in 1..MaxStaves :
          (/\ StopOn(st)
           /\ \E x \in OpenOctaves(st) : OpenOctaves(st) = {x} /\ heap[x].staff = <<st>>
           /\ \A y \in 1..Len(heap) :
                 heap[y].cls = "OCTAVE" /\ heap[y].endid = NoRef /\ heap[y].staff = <<st>>
                     => y \in OpenOctaves(st)) =>
              /\ m_octDis'[st + 1] = 0
              /\ \A x \in 1..Len(heap) :
                    heap[x].cls = "OCTAVE" =>
                        heap'[x] = IF x \in OpenOctaves(st)
                                   THEN [heap[x] EXCEPT !.endid = m_ID]
                                   ELSE heap[x]]_vars

\* --------------------------------------- octave displacement specification
\* Parts of one or two staves and one measure, which holds the octave-shift
\* directions and the notes of the octave-shift specification.
NextOctaves ==
    \/ \E parsed \in BOOLEAN : ImportFile(parsed)
    \/ \E st \in {<<>>, <<2>>} : ScorePart(PartOf(st, 1), FALSE)
    \/ \E nn \in ShiftNotes \cup {NoNote} : ReadMusicXmlMeasure(part.i + 1, nn)
    \/ \E nn \in ShiftNotes \cup {NoNote} : ReadMusicXmlNote(nn, Defined)
    \/ \E e \in ShiftDirections : ReadMusicXmlDirection(e, Defined)
    \/ EndMeasure
    \/ PartListEnd
    \/ ConvertToPageBasedDoc

SpecOctaves == Init /\ [][NextOctaves]_vars

\* ------------------------------------------- octave displacement claims
\* The part read[k] was read in: the parts read so far.
PartAt(k) == Cardinality({j \in 1..k : read[j].kind = "measure" /\ read[j].i = 0})

\* The staves of the parts before the p-th.
RECURSIVE StavesBefore(_)
StavesBefore(p) == IF p <= 1 THEN 0 ELSE StavesBefore(p - 1) + plist[p - 1].nb

\* The number the staff of the note read[i] has within its part.
LocalStaff(i) == read[i].staffN - StavesBefore(PartAt(i))

\* read[i] is a pitched note that made a Note.
Pitched(i) ==
    /\ read[i].kind = "note" /\ read[i].note # 0
    /\ read[i].e.pitch /\ read[i].e.octave # <<>>

\* An octave-shift down by 8 read before read[i] in the same part on the staff
\* of read[i] has had no stop yet.
UnderShift(i) ==
    \E a \in 1..(i - 1) :
        /\ PartAt(a) = PartAt(i)
        /\ IsShift(read[a], "down", LocalStaff(i))
        /\ \A b \in (a + 1)..(i - 1) : ~IsShift(read[b], "stop", LocalStaff(i))

\* C33: a pitched note is written one octave below its literal octave exactly
\* when an octave-shift down by 8 on its staff of its part is open, in every
\* part; otherwise it is written at its literal octave.
C33_DisplacementPerStaff ==
    ~ub => \A i \in 1..Len(read) :
              Pitched(i) =>
                  heap[read[i].note].oct =
                      IF UnderShift(i) THEN <<read[i].e.octave[1] - 1>>
                      ELSE read[i].e.octave

\* The same for the notes of the first part.
DisplacementInFirstPart ==
    ~ub => \A i \in 1..Len(read) :
              Pitched(i) /\ PartAt(i) = 1 =>
                  heap[read[i].note].oct =
                      IF UnderShift(i) THEN <<read[i].e.octave[1] - 1>>
                      ELSE read[i].e.octave

\* ---------------------------------------------- staff-indexed access claims
\* C34: no access by staff number is outside its vector: every read and write
\* of m_octDis is at a slot the vector has, and no run stops at one.
C34_StaffAccessInRange == ~ub /\ pc # "crashed"

\* The octave-shift direction read[k] names a staff whose number m_octDis has
\* no slot for: the vector has slot 0 and one slot per staff of the parts read
\* up to its part.
ShiftOutside(k) ==
    /\ read[k].kind = "direction" /\ read[k].e.shift # <<>>
    /\ ShiftStaff(read[k]) > StavesBefore(PartAt(k) + 1)

\* Only such a direction makes an access outside m_octDis.
OnlyShiftOutside == ub <=> \E k \in 1..Len(read) : ShiftOutside(k)

\* ---------------------------------------------- empty-measure forward claims
\* The step reads a forward that no note follows in its measure.
LastForward ==
    /\ Len(read') = Len(read) + 1
    /\ Last(read').kind = "forward"
    /\ nextNote = NoNote

\* A note or a backup was read before in the measure.
NoteOrBackupBefore == \E k \in 1..Len(Here(read)) : Here(read)[k].kind \in {"note", "backup"}

\* The objects the step makes, the Layer it may have to make apart.
MadeByStep == {x \in (Len(heap) + 1)..Len(heap') : heap'[x].cls # "LAYER"}

\* C35: a forward that no note follows and no note or backup precedes in its
\* measure adds one invisible MRest, and nothing else, at the end of its layer;
\* a forward that no note follows but a note or a backup precedes adds no
\* element; both advance the cursor by the duration of the forward.
C35_EmptyMeasureForward ==
    [][LastForward =>
          LET r == Last(read')
          IN /\ m_durTotal' = m_durTotal + r.e.duration
             /\ IF NoteOrBackupBefore
                THEN /\ MadeByStep = {}
                     /\ \A x \in 1..Len(heap) :
                           heap[x].cls = "LAYER" => heap'[x].kids = heap[x].kids
                ELSE \E x \in MadeByStep :
                        /\ MadeByStep = {x}
                        /\ heap'[x].cls = "MREST" /\ ~heap'[x].visible
                        /\ r.layer # 0 /\ heap'[r.layer].kids # <<>>
                        /\ Last(heap'[r.layer].kids) = x
                        /\ \A y \in 1..Len(heap) :
                              heap[y].cls = "LAYER" /\ y # r.layer =>
                                  heap'[y].kids = heap[y].kids]_vars

\* Both cases in one measure: a forward in the empty measure made the MRest, a
\* backup and a second forward followed, and no note was read.
C35_Witness ==
    /\ pc = "measure" /\ nextNote = NoNote
    /\ \E a, b, c \in 1..Len(Here(read)) :
          /\ a < b /\ b < c
          /\ Here(read)[a].kind = "forward" /\ Here(read)[b].kind = "backup"
          /\ Here(read)[c].kind = "forward"
          /\ \A k \in 1..Len(Here(read)) : Here(read)[k].kind # "note"
          /\ \E x \in 1..Len(heap) :
                heap[x].cls = "MREST" /\ ~heap[x].visible
                /\ \E j \in 1..Len(heap[Here(read)[a].layer].kids) :
                      heap[Here(read)[a].layer].kids[j] = x

\* ------------------------------------------------- final pass measure claims
\* The child element whose reading made the object.
ReadAt(id) ==
    CHOOSE j \in 1..Len(read) :
        read[j].kind # "measure" /\ TopBefore(j) < id /\ id <= read[j].top

\* The index, within its part, of the measure element read[j] is a child of.
IndexAt(j) ==
    LET mk == CHOOSE a \in 1..j :
                  /\ read[a].kind = "measure"
                  /\ \A b \in (a + 1)..j : read[b].kind # "measure"
    IN read[mk].i

\* The Measure of the section at the index at which the object was read (0 when
\* the section has none).
HomeOf(id) ==
    LET i == IndexAt(ReadAt(id))
    IN IF i < Len(heap[section].kids) THEN heap[section].kids[i + 1] ELSE 0

\* C36: every control element the final pass has put into a Measure is in the
\* Measure of the section at the index of the measure element it was read in.
C36_AttachedWhereRead ==
    pc \in {"ctrl", "done"} =>
        \A k \in 1..(ci - 1) :
            \A m \in HoldersOf(m_controlElements[k][2]) :
                m = HomeOf(m_controlElements[k][2])

\* The same for the control elements whose measure number is the number of one
\* Measure of the section only, the one at the index at which they were read.
AttachedWhereReadByNumber ==
    pc \in {"ctrl", "done"} =>
        \A k \in 1..(ci - 1) :
            LET e == m_controlElements[k]
            IN (HomeOf(e[2]) # 0 /\ Numbered(e[1]) = {HomeOf(e[2])}) =>
                   HoldersOf(e[2]) = {HomeOf(e[2])}

\* ------------------------------------------------ StaffDef and Staff claims
\* The part the StaffDef was made for: the parts whose first measure was read
\* before it was made, and one.
PartOfDef(d) ==
    1 + Cardinality({j \in 1..Len(read) :
                        read[j].kind = "measure" /\ read[j].i = 0 /\ read[j].m < d})

\* The Staffs made for the measure element of the marker read[j].
StaffsMadeAt(j) == {x \in (read[j].m + 1)..read[j].top : heap[x].cls = "STAFF"}

\* Every Staff has exactly one StaffDef of its number.
EveryStaffDefined ==
    \A x \in 1..Len(heap) :
        heap[x].cls = "STAFF" =>
            Cardinality({d \in StaffDefs : heap[d].n = heap[x].n}) = 1

\* Every StaffDef has a Staff of its number in each measure read of its part.
EveryDefHasStaffs ==
    \A d \in StaffDefs :
        \A j \in 1..Len(read) :
            (read[j].kind = "measure" /\ PartAt(j) = PartOfDef(d)) =>
                \E x \in StaffsMadeAt(j) : heap[x].n = heap[d].n

\* C37: the StaffDefs of a part and the Staffs of each of its measures carry
\* the same numbers: every Staff has exactly one StaffDef of its number and
\* every StaffDef has a Staff of its number in each measure of its part (in
\* every conversion that made no undefined access to the staff-group stack).
C37_StaffDefsMatchStaffs == ub \/ (EveryStaffDefined /\ EveryDefHasStaffs)

\* The same for the conversions that made as many StaffDefs as the staff counts
\* of the parts add up to.
StaffDefsMatchStaffsWhenCounted ==
    ub \/ Cardinality(StaffDefs) # StavesOf(plist, Len(plist))
       \/ (EveryStaffDefined /\ EveryDefHasStaffs)

\* ------------------------------------------- pending lists specification
\* Parts of one staff whose measures hold words-only directions, a quarter
\* note that ends a tie and begins one, a quarter rest, and the start of a
\* measure repeat; the parts after the first have one measure.
PendingNotes ==
    {[Quarter EXCEPT !.tiedStart = TRUE, !.tiedStop = TRUE], [Quarter EXCEPT !.rest = TRUE]}

NextPending ==
    \/ \E parsed \in BOOLEAN : ImportFile(parsed)
    \/ \E n \in 1..MaxMeasures : (plist = <<>> \/ n = 1) /\ ScorePart(PartOf(<<>>, n), FALSE)
    \/ \E nn \in PendingNotes \cup {NoNote} : ReadMusicXmlMeasure(part.i + 1, nn)
    \/ \E nn \in PendingNotes \cup {NoNote} : ReadMusicXmlNote(nn, Defined)
    \/ ReadMusicXmlDirection(WordsOnly, Defined)
    \/ ReadMusicXmlAttributes([DefAttributes EXCEPT !.measureRepeat = <<"start">>])
    \/ EndMeasure
    \/ PartListEnd
    \/ ConvertToPageBasedDoc

SpecPending == Init /\ [][NextPending]_vars

\* ------------------------------------------------- pending lists claims
\* The annotations the direction or harmony element read[j] made.
AnnotationsOf(j) ==
    {c \in (TopBefore(j) + 1)..read[j].top : heap[c].cls \in PendingClasses}

\* The first note element read after read[j], 0 when there is none.
NextNoteAfter(j) ==
    LET S == {i \in (j + 1)..Len(read) : IsNoteElement(read[i])}
    IN IF S = {} THEN 0 ELSE CHOOSE i \in S : \A k \in S : i <= k

\* The first note element read after read[j] outside measure-repeat mode, 0
\* when there is none.
NextFlushAfter(j) ==
    LET S == {i \in (j + 1)..Len(read) : Flushes(read[i])}
    IN IF S = {} THEN 0 ELSE CHOOSE i \in S : \A k \in S : i <= k

\* The number of the measure element read[j] is a child of.
NumberAt(j) ==
    LET mk == CHOOSE a \in 1..j :
                  /\ read[a].kind = "measure"
                  /\ \A b \in (a + 1)..j : read[b].kind # "measure"
    IN read[mk].num

\* The annotation is recorded with the number of the measure of read[j].
RecordedAt(c, j) ==
    \E k \in 1..Len(m_controlElements) : m_controlElements[k] = <<NumberAt(j), c>>

\* The step begins or ends a measure or a part.
Boundary ==
    \/ pc = "partlist" /\ pc' = "part"
    \/ pc = "part" /\ pc' = "measure"
    \/ pc = "measure" /\ pc' \in {"part", "partlist"}

\* C38 as stated: an annotation has as start reference the note or rest made
\* from the first note element read after it, in whichever measure or part,
\* and is recorded with the number of the measure it was read in.
C38_StartsAtNextNote ==
    \A j \in 1..Len(read) :
        read[j].kind \in {"direction", "harmony"} =>
            \A c \in AnnotationsOf(j) :
                /\ RecordedAt(c, j)
                /\ heap[c].startid =
                      IF NextNoteAfter(j) = 0 THEN NoRef
                      ELSE Ref(NoteObject(read[NextNoteAfter(j)]))

StartsAtNextFlush ==
    \A j \in 1..Len(read) :
        read[j].kind \in {"direction", "harmony"} =>
            \A c \in AnnotationsOf(j) :
                /\ RecordedAt(c, j)
                /\ heap[c].startid =
                      IF NextFlushAfter(j) = 0 THEN NoRef
                      ELSE Ref(read[NextFlushAfter(j)].id)

\* C38, amended: no step that begins or ends a measure or a part changes the
\* pending lists or the tie, slur and hairpin tables, and an annotation has
\* as start reference the element made from the first note element read after
\* it outside measure-repeat mode, in whichever measure or part, and is
\* recorded with the number of the measure it was read in.
C38_PendingAcrossBoundaries ==
    [][/\ Boundary => UNCHANGED <<pendVars, spanVars>>
       /\ StartsAtNextFlush']_vars

\* A direction read in the second measure of the first part, after its last
\* note, starts at a note of the second part; the tie begun in the first
\* measure of the first part ended in its second measure.
C38_Witness ==
    \E j \in 1..Len(read) :
        /\ read[j].kind = "direction" /\ PartAt(j) = 1 /\ NumberAt(j) = 2
        /\ NextFlushAfter(j) # 0 /\ PartAt(NextFlushAfter(j)) = 2
        /\ \E c \in AnnotationsOf(j) :
              RecordedAt(c, j) /\ heap[c].startid = Ref(read[NextFlushAfter(j)].id)
        /\ \E a, b \in 1..(j - 1), t \in 1..Len(heap) :
              /\ Flushes(read[a]) /\ NumberAt(a) = 1
              /\ Flushes(read[b]) /\ NumberAt(b) = 2
              /\ heap[t].cls = "TIE"
              /\ heap[t].startid = Ref(read[a].id)
              /\ heap[t].endid = Ref(read[b].id)

\* ------------------------------------------- measure repeat specification
\* Parts of one staff whose measures hold quarter notes, one of which begins a
\* beam, and the start and the stop of a measure repeat; the parts after the
\* first have one measure.
RepeatNotes == {Quarter, [Quarter EXCEPT !.beam = "begin"]}

NextRepeat ==
    \/ \E parsed \in BOOLEAN : ImportFile(parsed)
    \/ \E n \in 1..MaxMeasures : (plist = <<>> \/ n = 1) /\ ScorePart(PartOf(<<>>, n), FALSE)
    \/ \E nn \in RepeatNotes \cup {NoNote} : ReadMusicXmlMeasure(part.i + 1, nn)
    \/ \E nn \in RepeatNotes \cup {NoNote} : ReadMusicXmlNote(nn, Defined)
    \/ \E e \in RepeatMarks : ReadMusicXmlAttributes(e)
    \/ EndMeasure
    \/ PartListEnd
    \/ ConvertToPageBasedDoc

SpecRepeat == Init /\ [][NextRepeat]_vars

\* ------------------------------------------------- measure repeat claims
\* The step reads a note element in measure-repeat mode.
NoteInRepeat ==
    /\ Len(read') = Len(read) + 1
    /\ Last(read').kind = "note"
    /\ m_mRpt

\* The MRpts among the children of the layer.
MRptsIn(h, layer) == {k \in 1..Len(h[layer].kids) : h[h[layer].kids[k]].cls = "MRPT"}

\* What a note element read in measure-repeat mode does: it makes no object but
\* the Layer it may have to make and one MRpt, which it adds to its layer, when
\* that layer has none; the layer has one MRpt afterwards; the cursor advances
\* by its duration; the pending lists and m_ID stay as they are.
RepeatedNote ==
    LET r == Last(read')
        had == r.layer <= Len(heap) /\ MRptsIn(heap, r.layer) # {}
    IN /\ \A x \in (Len(heap) + 1)..Len(heap') : heap'[x].cls \in {"LAYER", "MRPT"}
       /\ Cardinality(MadeByStep) = IF had THEN 0 ELSE 1
       /\ Cardinality(MRptsIn(heap', r.layer)) = 1
       /\ m_durTotal' = m_durTotal + (IF r.e.chord THEN 0 ELSE r.e.duration)
       /\ UNCHANGED <<pendVars, m_ID>>

\* C39: in measure-repeat mode, which a measure-repeat start begins and a
\* measure-repeat of another type ends and which no measure or part boundary
\* changes, a note element makes no Note, Rest or Chord, adds an MRpt to its
\* layer only when the layer has none, so that each layer has at most one,
\* advances the cursor and leaves the pending lists and m_ID as they are.
C39_MeasureRepeatMode ==
    [][/\ NoteInRepeat => RepeatedNote
       /\ Boundary => m_mRpt' = m_mRpt
       /\ (Len(read') = Len(read) + 1 /\ Last(read').kind = "attributes"
              /\ Last(read').e.measureRepeat # <<>>) =>
             m_mRpt' = (Last(read').e.measureRepeat[1] = "start")]_vars

\* The same for the note elements read while no container is open.
MeasureRepeatModeOutsideContainers ==
    [][/\ (NoteInRepeat /\ m_elementStack = <<>>) => RepeatedNote
       /\ Boundary => m_mRpt' = m_mRpt
       /\ (Len(read') = Len(read) + 1 /\ Last(read').kind = "attributes"
              /\ Last(read').e.measureRepeat # <<>>) =>
             m_mRpt' = (Last(read').e.measureRepeat[1] = "start")]_vars

====
